---- MODULE Spec2Model ----
(***************************************************************************)
(* ASK-Terminal-AI: the virtual terminal session (terminal/command_mode.go)*)
(* with its suggestion fetch (getCommandSuggestions over                   *)
(* relay.OpenAIAdapter.ChatCompletion) and command execution tasks, and    *)
(* the event-stream reader of relay.OpenAIAdapter.ChatCompletionStream     *)
(* with its range-loop consumer.                                           *)
(*                                                                         *)
(* Seven specifications over the same state:                               *)
(*   Spec            a whole session: keys, fetches, executions            *)
(*   EditSpec        the keys that browse and edit, on a batch that arrived*)
(*   ExecSpec        executions of suggested commands and their messages   *)
(*   ParseSpec       the parsing of one response content into suggestions  *)
(*   PromptSpec      BuildPrompt called in two working directories         *)
(*   StreamSpec      one streaming request, its reader and its consumer    *)
(*   StreamLiveSpec  the same under fairness, the caller free to stop      *)
(*                                                                         *)
(* Strings are sequences of bytes (one-character TLA+ strings, or a hex    *)
(* pair for a byte of a multi-byte rune), so that Go's byte slicing and    *)
(* len() are what the model computes.  A rune is the sequence of its UTF-8 *)
(* bytes.                                                                  *)
(***************************************************************************)
EXTENDS Integers, Sequences, FiniteSets, TLC

\* ------------------------------------------------------------------ bounds
\* runes the input buffer may hold
MaxInputLen == 1
\* effective edit operations on one batch of suggestions
MaxEdits == 1
\* execute sequences in flight at once
MaxExec == 1

\* ----------------------------------------------------------------- strings
RECURSIVE Concat(_)
\* string(msg.Runes): the UTF-8 bytes of a sequence of runes
Concat(ss) == IF ss = <<>> THEN <<>> ELSE Head(ss) \o Concat(Tail(ss))

IsSpace(c) == c \in {" ", "\n", "\t", "\r"}

RECURSIVE TrimLeft(_)
TrimLeft(s) == IF s # <<>> /\ IsSpace(Head(s)) THEN TrimLeft(Tail(s)) ELSE s

RECURSIVE TrimRight(_)
TrimRight(s) ==
    IF s # <<>> /\ IsSpace(s[Len(s)]) THEN TrimRight(SubSeq(s, 1, Len(s) - 1)) ELSE s

\* strings.TrimSpace
TrimSpace(s) == TrimRight(TrimLeft(s))

\* strings.HasPrefix
HasPrefix(s, p) == Len(s) >= Len(p) /\ SubSeq(s, 1, Len(p)) = p

\* strings.Index, 1-based; 0 when sep does not occur
Index(s, sep) ==
    LET hits == {i \in 1..(Len(s) - Len(sep) + 1) : SubSeq(s, i, i + Len(sep) - 1) = sep}
    IN  IF hits = {} THEN 0 ELSE CHOOSE i \in hits : \A j \in hits : i <= j

\* strings.SplitN(s, sep, 2)
SplitN2(s, sep) ==
    LET i == Index(s, sep)
    IN  IF i = 0 THEN <<s>>
        ELSE <<SubSeq(s, 1, i - 1), SubSeq(s, i + Len(sep), Len(s))>>

RECURSIVE Split(_, _)
\* strings.Split(s, sep)
Split(s, sep) ==
    LET i == Index(s, sep)
    IN  IF i = 0 THEN <<s>>
        ELSE <<SubSeq(s, 1, i - 1)>> \o Split(SubSeq(s, i + Len(sep), Len(s)), sep)

\* strings.Fields(command) is empty: the command is all white space
NoFields(s) == \A i \in 1..Len(s) : IsSpace(s[i])

\* ------------------------------------------------------------ key events
\* tea.KeyRunes payloads: an ASCII rune, a two-byte rune (U+00E9), and the
\* two in one message (pasted text)
RuneX == <<"x">>
RuneE == <<"c3", "a9">>
RuneInputs == {<<RuneX>>, <<RuneE>>, <<RuneX, RuneE>>}
\* the runes typed in the session specification
SessionRunes == {<<RuneX>>}

QuitKeys == {"ctrl+c", "ctrl+d", "ctrl+z", "ctrl+q"}

\* ---------------------------------------------------------------- errors
NoErr == "nil"
ErrAdapter == "adapter does not implement required interface"
ErrNoChoices == "no suggestions received"
ErrParse == "failed to parse suggestions"
ErrAPI == "API error"
ErrTimeout == "request timed out after 35 seconds"

PlaceholderQuery == "Type your command query here..."
PlaceholderDirect == "Enter command to execute directly..."

\* ------------------------------------------------- model output and parsing
\* A JSON value as encoding/json sees it; "invalid" is text that is no JSON.
JStr(s) == [t |-> "str", v |-> s]
JObj(pairs) == [t |-> "obj", v |-> pairs]
JArr(elems) == [t |-> "arr", v |-> elems]
JNull == [t |-> "null", v |-> <<>>]
JInvalid == [t |-> "invalid", v |-> <<>>]

\* The message contents the endpoint may answer with: the text, and the JSON
\* value that text denotes.
\*   one   [{"1":{"ls":"d"}}]
\*   two   [{"1":{"ls":"d"}},{"2":{"p":"e"}}]
\*   zero  []
\*   text  ls - d <newline> # c - f     (no JSON)
\*   junk  hm                           (no JSON, no separator)
ContentIds == {"one", "two", "zero", "text", "junk"}

\* further contents for the parser alone
\*   three   [{"1":{"l -a":"d f"}},{"2":{"p":"e"}},{"3":{"g":"s"}}]
\*   hollow  [{"l - d":{}}]             (an array that holds no command)
\*   multi   [{"1":{"a":"b","c":"d"}}]  (an object of two commands)
\*   null    null
ParserContentIds == ContentIds \cup {"three", "hollow", "multi", "null"}

Q == "\""

ContentText(id) ==
    CASE id = "one" -> <<"[", "{", Q, "1", Q, ":", "{", Q, "l", "s", Q, ":", Q, "d", Q, "}", "}", "]">>
      [] id = "two" -> <<"[", "{", Q, "1", Q, ":", "{", Q, "l", "s", Q, ":", Q, "d", Q, "}", "}", ",",
                         "{", Q, "2", Q, ":", "{", Q, "p", Q, ":", Q, "e", Q, "}", "}", "]">>
      [] id = "zero" -> <<"[", "]">>
      [] id = "text" -> <<"l", "s", " ", "-", " ", "d", "\n", "#", " ", "c", " ", "-", " ", "f">>
      [] id = "three" -> <<"[", "{", Q, "1", Q, ":", "{", Q, "l", " ", "-", "a", Q, ":", Q, "d", " ", "f", Q, "}", "}", ",", "{", Q, "2", Q, ":", "{", Q, "p", Q, ":", Q, "e", Q, "}", "}", ",", "{", Q, "3", Q, ":", "{", Q, "g", Q, ":", Q, "s", Q, "}", "}", "]">>
      [] id = "hollow" -> <<"[", "{", Q, "l", " ", "-", " ", "d", Q, ":", "{", "}", "}", "]">>
      [] id = "multi" -> <<"[", "{", Q, "1", Q, ":", "{", Q, "a", Q, ":", Q, "b", Q, ",", Q, "c", Q, ":", Q, "d", Q, "}", "}", "]">>
      [] id = "null" -> <<"n", "u", "l", "l">>
      [] OTHER -> <<"h", "m">>

ContentJSON(id) ==
    CASE id = "one" -> JArr(<< JObj(<< <<"1", JObj(<< <<(<<"l", "s">>), JStr(<<"d">>)>> >>)>> >>) >>)
      [] id = "two" -> JArr(<< JObj(<< <<"1", JObj(<< <<(<<"l", "s">>), JStr(<<"d">>)>> >>)>> >>),
                               JObj(<< <<"2", JObj(<< <<(<<"p">>), JStr(<<"e">>)>> >>)>> >>) >>)
      [] id = "zero" -> JArr(<<>>)
      [] id = "three" ->
            JArr(<< JObj(<< <<"1", JObj(<< <<<<"l", " ", "-", "a">>, JStr(<<"d", " ", "f">>)>> >>)>> >>),
                    JObj(<< <<"2", JObj(<< <<(<<"p">>), JStr(<<"e">>)>> >>)>> >>),
                    JObj(<< <<"3", JObj(<< <<(<<"g">>), JStr(<<"s">>)>> >>)>> >>) >>)
      [] id = "hollow" -> JArr(<< JObj(<< <<<<"l", " ", "-", " ", "d">>, JObj(<<>>)>> >>) >>)
      [] id = "multi" ->
            JArr(<< JObj(<< <<"1", JObj(<< <<(<<"a">>), JStr(<<"b">>)>>,
                                           <<(<<"c">>), JStr(<<"d">>)>> >>)>> >>) >>)
      [] id = "null" -> JNull
      [] OTHER -> JInvalid

\* json.Unmarshal into map[string]string succeeds
IsStrMap(j) ==
    \/ j.t = "null"
    \/ j.t = "obj" /\ \A i \in 1..Len(j.v) : j.v[i][2].t \in {"str", "null"}

\* json.Unmarshal into map[string]map[string]string succeeds
IsMapMap(j) ==
    \/ j.t = "null"
    \/ j.t = "obj" /\ \A i \in 1..Len(j.v) : IsStrMap(j.v[i][2])

\* json.Unmarshal(content, &rawSuggestions) returns no error
UnmarshalOK(j) ==
    \/ j.t = "null"
    \/ j.t = "arr" /\ \A i \in 1..Len(j.v) : IsMapMap(j.v[i])

\* the orders in which a range over a Go map may visit its entries
Perms(s) ==
    LET n == Len(s)
        bij == {p \in [1..n -> 1..n] : \A i, j \in 1..n : p[i] = p[j] => i = j}
    IN  {[i \in 1..n |-> s[p[i]]] : p \in bij}

RECURSIVE Prod(_)
\* every concatenation that takes one sequence from each set, in order
Prod(sets) ==
    IF sets = <<>> THEN {<<>>}
    ELSE {a \o b : a \in Head(sets), b \in Prod(Tail(sets))}

\* append(suggestions, CommandSuggestion{Command: cmd, Description: desc})
NewSuggestion(cmd, desc) ==
    [Command |-> cmd, EditedCommand |-> <<>>, Description |-> desc, CursorPosition |-> 0]

\* for cmd, desc := range cmdMap
CmdMapOrders(cm) ==
    IF cm.t = "null" THEN {<<>>}
    ELSE {[i \in 1..Len(p) |-> NewSuggestion(p[i][1], p[i][2].v)] : p \in Perms(cm.v)}

\* for _, cmdMap := range item
ItemOrders(item) ==
    IF item.t = "null" THEN {<<>>}
    ELSE UNION {Prod([i \in 1..Len(p) |-> CmdMapOrders(p[i][2])]) : p \in Perms(item.v)}

\* the array ranged over as if it were a map: its items in any order
StrictSuggestions_AnyOrder(j) ==
    IF j.t = "null" THEN {<<>>}
    ELSE UNION {Prod([i \in 1..Len(p) |-> ItemOrders(p[i])]) : p \in Perms(j.v)}

\* for _, item := range rawSuggestions: the lists the strict decode may yield
StrictSuggestions(j) ==
    IF j.t = "null" THEN {<<>>}
    ELSE Prod([i \in 1..Len(j.v) |-> ItemOrders(j.v[i])])

\* the separators tried in the other order
Separators_ColonFirst == <<(<<":", " ">>), (<<" ", "-", " ">>)>>

\* []string{" - ", ": "}
Separators == <<(<<" ", "-", " ">>), (<<":", " ">>)>>

RECURSIVE TrySeparators(_, _)
\* the inner loop of extractCommandsFromText over separators k..2
TrySeparators(line, k) ==
    IF k > Len(Separators) THEN <<>>
    ELSE LET parts == SplitN2(line, Separators[k])
             cmd == TrimSpace(parts[1])
             desc == TrimSpace(parts[2])
         IN  IF /\ Len(parts) = 2
                /\ Len(cmd) > 0
                /\ ~HasPrefix(cmd, <<"#">>)
                /\ ~HasPrefix(cmd, <<"/", "/">>)
             THEN <<NewSuggestion(cmd, desc)>>
             ELSE TrySeparators(line, k + 1)

\* one iteration of the loop over lines: what it appends
ExtractLine(raw) ==
    LET line == TrimSpace(raw)
    IN  IF line = <<>> THEN <<>> ELSE TrySeparators(line, 1)

RECURSIVE ExtractLines(_)
ExtractLines(lines) ==
    IF lines = <<>> THEN <<>>
    ELSE ExtractLine(Head(lines)) \o ExtractLines(Tail(lines))

extractCommandsFromText(content) == ExtractLines(Split(content, <<"\n">>))

\* ------------------------------------------------------------------ state
VARIABLES
    m,          \* the VirtualTerminalModel the event loop holds
    proc,       \* "running", "quit" (tea.Quit) or "crashed" (unrecovered panic)
    fetch,      \* the goroutines and channels of one getCommandSuggestions call
    abandoned,  \* an earlier call's HTTP goroutine is still inside client.Do
    execs,      \* the tea.Sequence commands in flight, oldest first: the
                \* output the spawned process will have, and the stage
    edits,      \* history: edit operations that changed the current batch
    delivered,  \* history: the err of each suggestionsMsg handled since the last submit
    st,         \* the ChatCompletionStream reader, its channel and consumer
    parse,      \* one run of the suggestion parsing of getCommandSuggestions
    build,      \* two calls of BuildPrompt, in two working directories
    origin      \* the query whose fetch produced m.suggestions (history)

vars == <<m, proc, fetch, abandoned, execs, edits, delivered, st, parse, build, origin>>

\* NewVirtualTerminalModel; ok is whether relay.NewAdapter succeeded
NewVirtualTerminalModel(ok) ==
    [query |-> <<>>,
     input |-> <<>>,
     placeholder |-> PlaceholderQuery,
     suggestions |-> <<>>,
     selected |-> 0,
     loading |-> FALSE,
     queryMode |-> TRUE,
     directCommandMode |-> FALSE,
     err |-> IF ok THEN NoErr ELSE "failed to initialize adapter",
     adapter |-> ok,
     commandResult |-> <<>>,
     showResult |-> FALSE]

NoCmd == [op |-> "none", arg |-> <<>>]
QuitCmd == [op |-> "quit", arg |-> <<>>]
\* tea.Sequence(executeCommand(command), func() tea.Msg { return executeResultMsg{} })
ExecCmd(command) == [op |-> "exec", arg |-> command]
\* getCommandSuggestions(m.query, m.config, m.adapter)
FetchCmd(q) == [op |-> "fetch", arg |-> q]

Ret(model, cmd) == [m |-> model, cmd |-> cmd]

\* m.input.Value()
InputValue(mm) == Concat(mm.input)

\* m.input.Update(msg) of bubbles/textinput, cursor kept at the end of the
\* value: runes are appended, backspace removes the last rune
TextInputUpdate(in, key) ==
    CASE key.type = "runes" -> in \o key.runes
      [] key.type = "backspace" /\ in # <<>> -> SubSeq(in, 1, Len(in) - 1)
      [] OTHER -> in

\* lines 273-277 and 326: what Update does with a key no case returned for
PassToInput(mm, key) ==
    IF mm.queryMode \/ mm.directCommandMode
    THEN Ret([mm EXCEPT !.input = TextInputUpdate(mm.input, key)], NoCmd)
    ELSE Ret(mm, NoCmd)

\* the guard of the suggestion edit cases
CanEdit(mm) == ~mm.loading /\ Len(mm.suggestions) > 0 /\ ~mm.queryMode

\* the guard of navigation and of executing the selected suggestion
CanBrowse(mm) ==
    Len(mm.suggestions) > 0 /\ ~mm.queryMode /\ ~mm.directCommandMode

\* m.suggestions[m.selected], 0-based in the source
Sel(mm) == mm.suggestions[mm.selected + 1]
\* the assignment through cmd made to every element of m.suggestions
SetSel_Every(mm, sugg) ==
    [mm EXCEPT !.suggestions = [i \in 1..Len(mm.suggestions) |-> sugg]]
SetSel(mm, sugg) == [mm EXCEPT !.suggestions[mm.selected + 1] = sugg]

\* s[a:b] of Go, 0-based, half-open
Slice(s, a, b) == SubSeq(s, a + 1, b)

\* ------------------------------------------------- Update: tea.KeyMsg cases
\* case "tab" going from direct command mode to query mode whatever the list
UpdateTab_DirectToQuery(mm, key) ==
    IF mm.loading THEN Ret(mm, NoCmd)
    ELSE IF mm.queryMode
    THEN Ret([mm EXCEPT !.queryMode = FALSE,
                        !.directCommandMode = TRUE,
                        !.placeholder = PlaceholderDirect], NoCmd)
    ELSE IF mm.directCommandMode
    THEN Ret([mm EXCEPT !.directCommandMode = FALSE,
                        !.queryMode = TRUE,
                        !.placeholder = PlaceholderQuery], NoCmd)
    ELSE IF Len(mm.suggestions) > 0
    THEN Ret([mm EXCEPT !.queryMode = TRUE,
                        !.directCommandMode = FALSE,
                        !.placeholder = PlaceholderQuery], NoCmd)
    ELSE PassToInput(mm, key)

\* case "tab"
UpdateTab(mm, key) ==
    IF mm.loading THEN Ret(mm, NoCmd)
    ELSE IF mm.queryMode
    THEN Ret([mm EXCEPT !.queryMode = FALSE,
                        !.directCommandMode = TRUE,
                        !.placeholder = PlaceholderDirect], NoCmd)
    ELSE IF mm.directCommandMode
    THEN Ret([mm EXCEPT !.directCommandMode = FALSE,
                        !.queryMode = (Len(mm.suggestions) = 0),
                        !.placeholder = PlaceholderQuery], NoCmd)
    ELSE IF Len(mm.suggestions) > 0
    THEN Ret([mm EXCEPT !.queryMode = TRUE,
                        !.directCommandMode = FALSE,
                        !.placeholder = PlaceholderQuery], NoCmd)
    ELSE PassToInput(mm, key)

\* case "up", "down" stopping at the ends of the list instead of wrapping
UpdateUpDown_NoWrap(mm, key) ==
    IF ~mm.loading /\ CanBrowse(mm)
    THEN LET n == Len(mm.suggestions)
         IN  IF key.type = "up"
             THEN Ret([mm EXCEPT !.selected = IF mm.selected > 0 THEN mm.selected - 1 ELSE 0],
                      NoCmd)
             ELSE Ret([mm EXCEPT !.selected = IF mm.selected < n - 1 THEN mm.selected + 1
                                              ELSE n - 1], NoCmd)
    ELSE PassToInput(mm, key)

\* case "up", "down"
UpdateUpDown(mm, key) ==
    IF ~mm.loading /\ CanBrowse(mm)
    THEN LET n == Len(mm.suggestions)
         IN  IF key.type = "up"
             THEN Ret([mm EXCEPT !.selected = (mm.selected - 1 + n) % n], NoCmd)
             ELSE Ret([mm EXCEPT !.selected = (mm.selected + 1) % n], NoCmd)
    ELSE PassToInput(mm, key)

\* case "enter" submitting the query without clearing the input buffer
UpdateEnter_KeepsBuffer(mm, key) ==
    IF mm.loading THEN PassToInput(mm, key)
    ELSE IF mm.showResult
    THEN Ret([mm EXCEPT !.showResult = FALSE,
                        !.commandResult = <<>>,
                        !.suggestions = <<>>,
                        !.queryMode = TRUE,
                        !.directCommandMode = FALSE,
                        !.input = <<>>,
                        !.placeholder = PlaceholderQuery,
                        !.query = <<>>], NoCmd)
    ELSE IF CanBrowse(mm)
    THEN Ret(mm, ExecCmd(Sel(mm).EditedCommand))
    ELSE IF mm.directCommandMode
    THEN IF InputValue(mm) # <<>>
         THEN Ret([mm EXCEPT !.input = <<>>], ExecCmd(InputValue(mm)))
         ELSE PassToInput(mm, key)
    ELSE IF mm.queryMode
    THEN IF InputValue(mm) # <<>>
         THEN Ret([mm EXCEPT !.query = InputValue(mm),
                             !.loading = TRUE,
                             !.queryMode = FALSE], FetchCmd(InputValue(mm)))
         ELSE PassToInput([mm EXCEPT !.query = <<>>], key)
    ELSE PassToInput(mm, key)

\* case "enter" executing the suggestion as received, without its edits
UpdateEnter_OriginalCommand(mm, key) ==
    IF mm.loading THEN PassToInput(mm, key)
    ELSE IF mm.showResult
    THEN Ret([mm EXCEPT !.showResult = FALSE,
                        !.commandResult = <<>>,
                        !.suggestions = <<>>,
                        !.queryMode = TRUE,
                        !.directCommandMode = FALSE,
                        !.input = <<>>,
                        !.placeholder = PlaceholderQuery,
                        !.query = <<>>], NoCmd)
    ELSE IF CanBrowse(mm)
    THEN Ret(mm, ExecCmd(Sel(mm).Command))
    ELSE IF mm.directCommandMode
    THEN IF InputValue(mm) # <<>>
         THEN Ret([mm EXCEPT !.input = <<>>], ExecCmd(InputValue(mm)))
         ELSE PassToInput(mm, key)
    ELSE IF mm.queryMode
    THEN IF InputValue(mm) # <<>>
         THEN Ret([mm EXCEPT !.query = InputValue(mm),
                             !.loading = TRUE,
                             !.input = <<>>,
                             !.queryMode = FALSE], FetchCmd(InputValue(mm)))
         ELSE PassToInput([mm EXCEPT !.query = <<>>], key)
    ELSE PassToInput(mm, key)

\* case "enter" without the test of m.loading
UpdateEnter_WhileLoading(mm, key) ==
    IF mm.showResult
    THEN Ret([mm EXCEPT !.showResult = FALSE,
                        !.commandResult = <<>>,
                        !.suggestions = <<>>,
                        !.queryMode = TRUE,
                        !.directCommandMode = FALSE,
                        !.input = <<>>,
                        !.placeholder = PlaceholderQuery,
                        !.query = <<>>], NoCmd)
    ELSE IF CanBrowse(mm)
    THEN Ret(mm, ExecCmd(Sel(mm).EditedCommand))
    ELSE IF mm.directCommandMode
    THEN IF InputValue(mm) # <<>>
         THEN Ret([mm EXCEPT !.input = <<>>], ExecCmd(InputValue(mm)))
         ELSE PassToInput(mm, key)
    ELSE IF mm.queryMode
    THEN IF InputValue(mm) # <<>>
         THEN Ret([mm EXCEPT !.query = InputValue(mm),
                             !.loading = TRUE,
                             !.input = <<>>,
                             !.queryMode = FALSE], FetchCmd(InputValue(mm)))
         ELSE PassToInput([mm EXCEPT !.query = <<>>], key)
    ELSE PassToInput(mm, key)

\* case "enter"
UpdateEnter(mm, key) ==
    IF mm.loading THEN PassToInput(mm, key)
    ELSE IF mm.showResult
    THEN Ret([mm EXCEPT !.showResult = FALSE,
                        !.commandResult = <<>>,
                        !.suggestions = <<>>,
                        !.queryMode = TRUE,
                        !.directCommandMode = FALSE,
                        !.input = <<>>,
                        !.placeholder = PlaceholderQuery,
                        !.query = <<>>], NoCmd)
    ELSE IF CanBrowse(mm)
    THEN Ret(mm, ExecCmd(Sel(mm).EditedCommand))
    ELSE IF mm.directCommandMode
    THEN IF InputValue(mm) # <<>>
         THEN Ret([mm EXCEPT !.input = <<>>], ExecCmd(InputValue(mm)))
         ELSE PassToInput(mm, key)
    ELSE IF mm.queryMode
    THEN IF InputValue(mm) # <<>>
         THEN Ret([mm EXCEPT !.query = InputValue(mm),
                             !.loading = TRUE,
                             !.input = <<>>,
                             !.queryMode = FALSE], FetchCmd(InputValue(mm)))
         ELSE PassToInput([mm EXCEPT !.query = <<>>], key)
    ELSE PassToInput(mm, key)

\* case "backspace" without "cmd.CursorPosition--"
UpdateBackspace_KeepsCursor(mm, key) ==
    IF CanEdit(mm)
    THEN LET cmd == Sel(mm)
             n == Len(cmd.EditedCommand)
         IN  IF cmd.CursorPosition > 0
             THEN Ret(SetSel(mm, [cmd EXCEPT
                        !.EditedCommand = Slice(cmd.EditedCommand, 0, cmd.CursorPosition - 1)
                                          \o Slice(cmd.EditedCommand, cmd.CursorPosition, n)]),
                      NoCmd)
             ELSE Ret(mm, NoCmd)
    ELSE PassToInput(mm, key)

\* case "backspace"
UpdateBackspace(mm, key) ==
    IF CanEdit(mm)
    THEN LET cmd == Sel(mm)
             n == Len(cmd.EditedCommand)
         IN  IF cmd.CursorPosition > 0
             THEN Ret(SetSel(mm, [cmd EXCEPT
                        !.EditedCommand = Slice(cmd.EditedCommand, 0, cmd.CursorPosition - 1)
                                          \o Slice(cmd.EditedCommand, cmd.CursorPosition, n),
                        !.CursorPosition = cmd.CursorPosition - 1]), NoCmd)
             ELSE Ret(mm, NoCmd)
    ELSE PassToInput(mm, key)

\* case "delete"
UpdateDelete(mm, key) ==
    IF CanEdit(mm)
    THEN LET cmd == Sel(mm)
             n == Len(cmd.EditedCommand)
         IN  IF cmd.CursorPosition < n
             THEN Ret(SetSel(mm, [cmd EXCEPT
                        !.EditedCommand = Slice(cmd.EditedCommand, 0, cmd.CursorPosition)
                                          \o Slice(cmd.EditedCommand, cmd.CursorPosition + 1, n)]),
                      NoCmd)
             ELSE Ret(mm, NoCmd)
    ELSE PassToInput(mm, key)

\* case "left" without the test of the cursor against 0
UpdateLeft_NoBound(mm, key) ==
    IF CanEdit(mm)
    THEN LET cmd == Sel(mm)
         IN  Ret(SetSel(mm, [cmd EXCEPT !.CursorPosition = cmd.CursorPosition - 1]), NoCmd)
    ELSE PassToInput(mm, key)

\* case "left"
UpdateLeft(mm, key) ==
    IF CanEdit(mm)
    THEN LET cmd == Sel(mm)
         IN  IF cmd.CursorPosition > 0
             THEN Ret(SetSel(mm, [cmd EXCEPT !.CursorPosition = cmd.CursorPosition - 1]), NoCmd)
             ELSE Ret(mm, NoCmd)
    ELSE PassToInput(mm, key)

\* case "right"
UpdateRight(mm, key) ==
    IF CanEdit(mm)
    THEN LET cmd == Sel(mm)
         IN  IF cmd.CursorPosition < Len(cmd.EditedCommand)
             THEN Ret(SetSel(mm, [cmd EXCEPT !.CursorPosition = cmd.CursorPosition + 1]), NoCmd)
             ELSE Ret(mm, NoCmd)
    ELSE PassToInput(mm, key)

\* the loop of case "esc": every suggestion back to its original command
ResetEdits(suggs) ==
    [i \in 1..Len(suggs) |-> [suggs[i] EXCEPT !.EditedCommand = suggs[i].Command,
                                              !.CursorPosition = Len(suggs[i].Command)]]

\* case "esc" resetting the selected suggestion only
UpdateEsc_SelectedOnly(mm, key) ==
    IF ~mm.loading /\ mm.showResult
    THEN IF Len(mm.suggestions) > 0
         THEN Ret([mm EXCEPT !.showResult = FALSE,
                             !.commandResult = <<>>,
                             !.queryMode = FALSE,
                             !.directCommandMode = FALSE], NoCmd)
         ELSE Ret([mm EXCEPT !.showResult = FALSE,
                             !.commandResult = <<>>,
                             !.queryMode = TRUE], NoCmd)
    ELSE IF CanEdit(mm)
    THEN Ret([SetSel(mm, [Sel(mm) EXCEPT !.EditedCommand = Sel(mm).Command,
                                         !.CursorPosition = Len(Sel(mm).Command)])
                EXCEPT !.queryMode = TRUE], NoCmd)
    ELSE PassToInput(mm, key)

\* case "esc"
UpdateEsc(mm, key) ==
    IF ~mm.loading /\ mm.showResult
    THEN IF Len(mm.suggestions) > 0
         THEN Ret([mm EXCEPT !.showResult = FALSE,
                             !.commandResult = <<>>,
                             !.queryMode = FALSE,
                             !.directCommandMode = FALSE], NoCmd)
         ELSE Ret([mm EXCEPT !.showResult = FALSE,
                             !.commandResult = <<>>,
                             !.queryMode = TRUE], NoCmd)
    ELSE IF CanEdit(mm)
    THEN Ret([mm EXCEPT !.suggestions = ResetEdits(mm.suggestions),
                        !.queryMode = TRUE], NoCmd)
    ELSE PassToInput(mm, key)

\* default: a tea.KeyRunes key inserts its runes at the cursor
UpdateDefault(mm, key) ==
    IF CanEdit(mm) /\ key.type = "runes"
    THEN LET cmd == Sel(mm)
             n == Len(cmd.EditedCommand)
         IN  Ret(SetSel(mm, [cmd EXCEPT
                    !.EditedCommand = Slice(cmd.EditedCommand, 0, cmd.CursorPosition)
                                      \o Concat(key.runes)
                                      \o Slice(cmd.EditedCommand, cmd.CursorPosition, n),
                    !.CursorPosition = cmd.CursorPosition + Len(key.runes)]), NoCmd)
    ELSE PassToInput(mm, key)

\* Update(msg) for a key, with the quit keys ignored while a fetch is pending
UpdateKey_QuitWhenIdle(mm, key) ==
    CASE key.type \in QuitKeys -> IF mm.loading THEN Ret(mm, NoCmd) ELSE Ret(mm, QuitCmd)
      [] key.type = "tab" -> UpdateTab(mm, key)
      [] key.type \in {"up", "down"} -> UpdateUpDown(mm, key)
      [] key.type = "enter" -> UpdateEnter(mm, key)
      [] key.type = "backspace" -> UpdateBackspace(mm, key)
      [] key.type = "delete" -> UpdateDelete(mm, key)
      [] key.type = "left" -> UpdateLeft(mm, key)
      [] key.type = "right" -> UpdateRight(mm, key)
      [] key.type = "esc" -> UpdateEsc(mm, key)
      [] OTHER -> UpdateDefault(mm, key)

\* Update(msg) for msg a tea.KeyMsg
UpdateKey(mm, key) ==
    CASE key.type \in QuitKeys -> Ret(mm, QuitCmd)
      [] key.type = "tab" -> UpdateTab(mm, key)
      [] key.type \in {"up", "down"} -> UpdateUpDown(mm, key)
      [] key.type = "enter" -> UpdateEnter(mm, key)
      [] key.type = "backspace" -> UpdateBackspace(mm, key)
      [] key.type = "delete" -> UpdateDelete(mm, key)
      [] key.type = "left" -> UpdateLeft(mm, key)
      [] key.type = "right" -> UpdateRight(mm, key)
      [] key.type = "esc" -> UpdateEsc(mm, key)
      [] OTHER -> UpdateDefault(mm, key)

\* --------------------------------------------- Update: completion messages
SuggestionsMsg(suggs, e) == [suggestions |-> suggs, err |-> e]

\* the loop of case suggestionsMsg: one CommandSuggestion per received one
InitSuggestion(sugg) ==
    [Command |-> sugg.Command,
     EditedCommand |-> sugg.Command,
     Description |-> sugg.Description,
     CursorPosition |-> Len(sugg.Command)]

\* case suggestionsMsg without "m.selected = 0"
UpdateSuggestions_KeepSelected(mm, msg) ==
    IF msg.err # NoErr
    THEN [mm EXCEPT !.loading = FALSE, !.err = msg.err, !.queryMode = TRUE]
    ELSE [mm EXCEPT !.loading = FALSE,
                    !.suggestions = [i \in 1..Len(msg.suggestions) |->
                                        InitSuggestion(msg.suggestions[i])],
                    !.queryMode = FALSE]

\* case suggestionsMsg with the list built before the error is looked at
UpdateSuggestions_ErrorClearsList(mm, msg) ==
    IF msg.err # NoErr
    THEN [mm EXCEPT !.loading = FALSE, !.err = msg.err, !.queryMode = TRUE,
                    !.suggestions = <<>>]
    ELSE [mm EXCEPT !.loading = FALSE,
                    !.suggestions = [i \in 1..Len(msg.suggestions) |->
                                        InitSuggestion(msg.suggestions[i])],
                    !.selected = 0,
                    !.queryMode = FALSE]

\* case suggestionsMsg
UpdateSuggestions(mm, msg) ==
    IF msg.err # NoErr
    THEN [mm EXCEPT !.loading = FALSE, !.err = msg.err, !.queryMode = TRUE]
    ELSE [mm EXCEPT !.loading = FALSE,
                    !.suggestions = [i \in 1..Len(msg.suggestions) |->
                                        InitSuggestion(msg.suggestions[i])],
                    !.selected = 0,
                    !.queryMode = FALSE]

\* case executeResultMsg, ending the loading state as well
UpdateExecuteResult_ClearsLoading(mm) ==
    IF mm.directCommandMode
    THEN [mm EXCEPT !.showResult = TRUE, !.loading = FALSE]
    ELSE [mm EXCEPT !.showResult = TRUE, !.queryMode = TRUE, !.input = <<>>,
                    !.loading = FALSE]

\* case executeResultMsg
UpdateExecuteResult(mm) ==
    IF mm.directCommandMode
    THEN [mm EXCEPT !.showResult = TRUE]
    ELSE [mm EXCEPT !.showResult = TRUE, !.queryMode = TRUE, !.input = <<>>]

\* case commandOutputMsg
UpdateCommandOutput(mm, out) == [mm EXCEPT !.commandResult = out]

\* what a spawned process may print
Stdouts == {<<"o">>}

\* executeCommand: the text of the commandOutputMsg it returns when the
\* process prints stdout and nothing on stderr
CommandOutput(command, stdout) ==
    IF NoFields(command)
    THEN <<"Error: Empty command">>
    ELSE <<"\n">> \o stdout \o <<"\n">>

\* ------------------------------------------------- getCommandSuggestions
\* what the HTTP exchange may bring once client.Do has returned a response
Replies == {"truncated", "non200", "badbody", "nochoices"} \cup ContentIds

IdleFetch ==
    [c |-> "idle", g |-> "none", errChan |-> FALSE,
     responseChan |-> "none", ctxDone |-> FALSE, timer |-> FALSE, unanswered |-> FALSE,
     msg |-> SuggestionsMsg(<<>>, NoErr), query |-> <<>>]

\* Once the closure has left the select nothing receives from its channels or
\* waits for its timer any more: they are dropped from the state, and so is
\* a goroutine that has finished.
Settle(f) ==
    IF f.c = "select" THEN f
    ELSE LET g == IF f.g = "done" \/ (f.c = "idle" /\ f.g = "do") THEN "none" ELSE f.g
         IN  [f EXCEPT !.g = g, !.errChan = FALSE, !.responseChan = "none",
                       !.ctxDone = (f.c = "returned" \/ g # "none"), !.timer = FALSE]

\* the closure up to the select (the type assertion, the channels, go func())
\* and the goroutine up to client.Do; built: json.Marshal and
\* http.NewRequestWithContext succeed, else ChatCompletion returns their error
StartFetch(mm, built) ==
    IF mm.adapter
    THEN IF built
         THEN [IdleFetch EXCEPT !.c = "select", !.g = "do"]
         ELSE [IdleFetch EXCEPT !.c = "select", !.g = "done", !.errChan = TRUE]
    ELSE [IdleFetch EXCEPT !.c = "returned", !.ctxDone = TRUE,
                           !.msg = SuggestionsMsg(<<>>, ErrAdapter)]

\* case response := <-responseChan: the messages the closure may return
ResponseMsgs(reply) ==
    IF reply = "nochoices" THEN {SuggestionsMsg(<<>>, ErrNoChoices)}
    ELSE IF ~UnmarshalOK(ContentJSON(reply))
    THEN LET suggs == extractCommandsFromText(ContentText(reply))
         IN  IF Len(suggs) > 0
             THEN {SuggestionsMsg(suggs, NoErr)}
             ELSE {SuggestionsMsg(<<>>, ErrParse)}
    ELSE {SuggestionsMsg(suggs, NoErr) : suggs \in StrictSuggestions(ContentJSON(reply))}

\* ------------------------------------------------ the event loop: key events
Running == proc = "running"

\* the key keeps the input buffer and the number of edits within the bounds
WithinBounds(key) ==
    LET r == UpdateKey(m, key)
    IN  /\ Len(r.m.input) <= MaxInputLen
        /\ (r.m.suggestions # m.suggestions /\ Len(r.m.suggestions) = Len(m.suggestions)
              /\ key.type # "esc")
             => edits < MaxEdits

\* the edit count after a key: a changed suggestion counts, a reset or a
\* cleared list starts anew
EditsAfter(key, mm) ==
    IF mm.suggestions = m.suggestions THEN edits
    ELSE IF key.type = "esc" \/ Len(mm.suggestions) # Len(m.suggestions) THEN 0
    ELSE edits + 1

\* tea.Quit: p.Run() returns, StartVirtualTerminalMode drops the model and
\* the process ends with whatever its goroutines were doing: the closure of
\* a fetch and the commands of a sequence stay where they were
Exit ==
    /\ proc' = "quit"
    /\ m' = NewVirtualTerminalModel(TRUE)
    /\ fetch' = [IdleFetch EXCEPT !.c = fetch.c]
    /\ abandoned' = FALSE
    /\ execs' = execs
    /\ edits' = 0
    /\ delivered' = <<>>

\* p.Run() hands one tea.KeyMsg to Update and starts the command it returns
KeyEvent(key) ==
    /\ Running
    /\ WithinBounds(key)
    /\ LET r == UpdateKey(m, key)
       IN  /\ st' = st
           /\ parse' = parse
           /\ build' = build
           /\ origin' = IF r.cmd.op = "quit" \/ r.m.suggestions = <<>> THEN <<>> ELSE origin
           /\ r.cmd.op # "quit" => m' = r.m /\ edits' = EditsAfter(key, r.m)
           /\ CASE r.cmd.op = "quit" -> Exit
                [] r.cmd.op = "exec" ->
                     /\ Len(execs) < MaxExec
                     /\ \E stdout \in Stdouts :
                           execs' = Append(execs, [out |-> CommandOutput(r.cmd.arg, stdout),
                                                   stage |-> "run"])
                     /\ UNCHANGED <<proc, fetch, abandoned, delivered>>
                [] r.cmd.op = "fetch" ->
                     /\ \E built \in BOOLEAN :
                           fetch' = [StartFetch(m, built) EXCEPT !.query = r.cmd.arg]
                     /\ delivered' = <<>>
                     /\ UNCHANGED <<proc, abandoned, execs>>
                [] OTHER ->
                     UNCHANGED <<proc, fetch, abandoned, execs, delivered>>

Key(t) == [type |-> t, runes |-> <<>>]

KeyQuit == \E k \in QuitKeys : KeyEvent(Key(k))
KeyTab == KeyEvent(Key("tab"))
KeyUp == KeyEvent(Key("up"))
KeyDown == KeyEvent(Key("down"))
KeyEnter == KeyEvent(Key("enter"))
KeyBackspace == KeyEvent(Key("backspace"))
KeyDelete == KeyEvent(Key("delete"))
KeyLeft == KeyEvent(Key("left"))
KeyRight == KeyEvent(Key("right"))
KeyEsc == KeyEvent(Key("esc"))
KeyRunes == \E r \in SessionRunes : KeyEvent([type |-> "runes", runes |-> r])
\* a key the switch has no case for and that carries no runes
KeyOther == KeyEvent(Key("home"))

\* ------------------------------------- the event loop: execution messages
\* the first command of a sequence returns and Update handles its message
CommandOutputMsg(i) ==
    /\ Running
    /\ execs[i].stage = "run"
    /\ m' = UpdateCommandOutput(m, execs[i].out)
    /\ execs' = [execs EXCEPT ![i].stage = "result"]
    /\ UNCHANGED <<proc, fetch, abandoned, edits, delivered, st, parse, build, origin>>

\* the second command of a sequence returns and Update handles its message
ExecuteResultMsg(i) ==
    /\ Running
    /\ execs[i].stage = "result"
    /\ m' = UpdateExecuteResult(m)
    /\ execs' = SubSeq(execs, 1, i - 1) \o SubSeq(execs, i + 1, Len(execs))
    /\ UNCHANGED <<proc, fetch, abandoned, edits, delivered, st, parse, build, origin>>

\* ------------------------------------------ the goroutines of one fetch
\* client.Do returns an error (no connection, or the context is done) and a
\* nil response; line 87 reads resp.Body: a nil dereference that nothing
\* recovers in this goroutine
HTTPDoFails ==
    /\ Running
    /\ fetch.g = "do"
    /\ proc' = "crashed"
    /\ UNCHANGED <<m, fetch, abandoned, execs, edits, delivered, st, parse, build, origin>>

\* the same in the goroutine of a call whose closure has returned
AbandonedDoFails ==
    /\ Running
    /\ abandoned
    /\ proc' = "crashed"
    /\ UNCHANGED <<m, fetch, abandoned, execs, edits, delivered, st, parse, build, origin>>

\* client.Do returns a response before the context is done
HTTPDoReturns ==
    /\ Running
    /\ fetch.g = "do"
    /\ ~fetch.ctxDone
    /\ fetch' = [fetch EXCEPT !.g = "body"]
    /\ UNCHANGED <<m, proc, abandoned, execs, edits, delivered, st, parse, build, origin>>

\* the rest of ChatCompletion and the send of the goroutine, for the reply
\* the body holds.  "truncated": the context was done while the body was read
\* and io.ReadAll kept a proper prefix, which does not decode.
HTTPFinish(reply) ==
    /\ Running
    /\ fetch.g = "body"
    /\ reply = "truncated" => fetch.ctxDone
    /\ IF reply \in {"truncated", "non200", "badbody"}
       THEN fetch' = Settle([fetch EXCEPT !.g = "done", !.errChan = TRUE])
       ELSE fetch' = Settle([fetch EXCEPT !.g = "done", !.responseChan = reply])
    /\ UNCHANGED <<m, proc, abandoned, execs, edits, delivered, st, parse, build, origin>>

\* the 30 s deadline of context.WithTimeout passes; unanswered records that
\* client.Do had not returned a response by then
ContextDeadline ==
    /\ Running
    /\ fetch.c = "select"
    /\ ~fetch.ctxDone
    /\ fetch' = [fetch EXCEPT !.ctxDone = TRUE, !.unanswered = (fetch.g = "do")]
    /\ UNCHANGED <<m, proc, abandoned, execs, edits, delivered, st, parse, build, origin>>

\* the 35 s timer of time.After fires, 5 s after the deadline
TimerFires ==
    /\ Running
    /\ fetch.c = "select"
    /\ fetch.ctxDone
    /\ ~fetch.timer
    /\ fetch' = [fetch EXCEPT !.timer = TRUE]
    /\ UNCHANGED <<m, proc, abandoned, execs, edits, delivered, st, parse, build, origin>>

\* the select takes one ready case; the deferred cancel() runs on return
SelectResponse ==
    /\ Running
    /\ fetch.c = "select"
    /\ fetch.responseChan # "none"
    /\ \E msg \in ResponseMsgs(fetch.responseChan) :
          fetch' = Settle([fetch EXCEPT !.c = "returned", !.msg = msg])
    /\ UNCHANGED <<m, proc, abandoned, execs, edits, delivered, st, parse, build, origin>>

SelectError ==
    /\ Running
    /\ fetch.c = "select"
    /\ fetch.errChan
    /\ fetch' = Settle([fetch EXCEPT !.c = "returned", !.msg = SuggestionsMsg(<<>>, ErrAPI)])
    /\ UNCHANGED <<m, proc, abandoned, execs, edits, delivered, st, parse, build, origin>>

SelectTimeout ==
    /\ Running
    /\ fetch.c = "select"
    /\ fetch.timer
    /\ fetch' = Settle([fetch EXCEPT !.c = "returned",
                                     !.msg = SuggestionsMsg(<<>>, ErrTimeout)])
    /\ UNCHANGED <<m, proc, abandoned, execs, edits, delivered, st, parse, build, origin>>

\* the event loop receives the closure's message and Update handles it
SuggestionsMsgEvent ==
    /\ Running
    /\ fetch.c = "returned"
    /\ m' = UpdateSuggestions(m, fetch.msg)
    /\ fetch' = Settle([fetch EXCEPT !.c = "idle", !.msg = IdleFetch.msg, !.query = <<>>])
    /\ origin' = IF fetch.msg.err # NoErr THEN origin
                 ELSE IF Len(fetch.msg.suggestions) > 0 THEN fetch.query
                 ELSE <<>>
    /\ abandoned' = (abandoned \/ fetch.g = "do")
    /\ delivered' = Append(delivered, fetch.msg.err)
    /\ edits' = IF fetch.msg.err = NoErr THEN 0 ELSE edits
    /\ UNCHANGED <<proc, execs, st, parse, build>>

\* ------------------------------------------- a session on one batch
\* key events handled in such a session, at most
MaxKeys == 6

\* the keys that browse and edit: every key of the switch but the quit keys
\* and enter, with a one-byte and a two-byte rune
EditKeys ==
    {Key(t) : t \in {"tab", "up", "down", "backspace", "delete", "left", "right", "esc"}}
    \cup {[type |-> "runes", runes |-> r] : r \in RuneInputs}

\* the model once a query was submitted and its batch has arrived
ModelWithBatch(suggs) ==
    UpdateSuggestions(
        UpdateEnter([NewVirtualTerminalModel(TRUE) EXCEPT !.input = <<RuneX>>],
                    Key("enter")).m,
        SuggestionsMsg(suggs, NoErr))

\* p.Run() hands a key to Update, which returns no command
EditKey(key) ==
    /\ Running
    /\ edits < MaxKeys
    /\ UpdateKey(m, key).cmd = NoCmd
    /\ m' = UpdateKey(m, key).m
    /\ edits' = edits + 1
    /\ UNCHANGED <<proc, fetch, abandoned, execs, delivered, st, parse, build, origin>>

\* ------------------------------------- the parsing of getCommandSuggestions
\* the lines a model may answer with when it does not answer in JSON
TextLines ==
    {<<"l", " ", "-", "a", " ", "-", " ", "d">>,
     <<"#", " ", "c">>,
     <<"#", " ", "c", " ", "-", " ", "f">>,
     <<"/", "/", " ", "c", ":", " ", "f">>,
     <<"g", ":", " ", "s">>,
     <<"a", ":", " ", "b", " ", "-", " ", "c">>,
     <<"a", " ", "-", " ", "b", " ", "-", " ", "c">>,
     <<"h", "m">>,
     <<>>,
     <<" ", "x", " ", " ", "-", " ", " ", "y", " ">>,
     <<":", " ", "x">>}

\* lines a text is made of, at most
MaxLines == 2

\* the texts of one to MaxLines of those lines
LineSeqs == UNION {[1..n -> TextLines] : n \in 1..MaxLines}

RECURSIVE Join(_, _)
\* strings.Join(ss, sep)
Join(ss, sep) ==
    IF Len(ss) = 0 THEN <<>>
    ELSE IF Len(ss) = 1 THEN ss[1]
    ELSE ss[1] \o sep \o Join(Tail(ss), sep)

\* a command, a comment and a command, one per line
ExampleText == <<"l", " ", "-", "a", " ", "-", " ", "d", " ", "f", "\n", "#", " ", "c", "\n", "g", " ", "-", "r", " ", "-", " ", "s">>

\* the contents a response may carry: the text, and the JSON value it denotes
ParserInputs ==
    {[text |-> ContentText(id), json |-> ContentJSON(id)] : id \in ParserContentIds}
    \cup {[text |-> Join(ls, <<"\n">>), json |-> JInvalid] : ls \in LineSeqs}
    \cup {[text |-> ExampleText, json |-> JInvalid]}

\* no parsing: the state of parse outside the parser specification
NoParse ==
    [text |-> <<>>, json |-> JInvalid, pc |-> "none", i |-> 0, out |-> <<>>,
     msg |-> SuggestionsMsg(<<>>, NoErr)]

\* json.Unmarshal([]byte(content), &rawSuggestions): on an error the
\* fallback starts with the split of the content into lines
ParseUnmarshal ==
    /\ parse.pc = "unmarshal"
    /\ IF UnmarshalOK(parse.json)
       THEN parse' = [parse EXCEPT !.pc = "flatten"]
       ELSE parse' = [parse EXCEPT !.pc = "lines", !.i = 1]
    /\ UNCHANGED <<m, proc, fetch, abandoned, execs, edits, delivered, st, build, origin>>

\* the three nested range loops and return suggestionsMsg{suggestions, nil}
ParseFlatten ==
    /\ parse.pc = "flatten"
    /\ \E suggs \in StrictSuggestions(parse.json) :
          parse' = [parse EXCEPT !.pc = "returned", !.msg = SuggestionsMsg(suggs, NoErr)]
    /\ UNCHANGED <<m, proc, fetch, abandoned, execs, edits, delivered, st, build, origin>>

\* one iteration of the loop over lines in extractCommandsFromText
ParseLine ==
    /\ parse.pc = "lines"
    /\ parse.i <= Len(Split(parse.text, <<"\n">>))
    /\ parse' = [parse EXCEPT !.i = parse.i + 1,
                              !.out = parse.out
                                      \o ExtractLine(Split(parse.text, <<"\n">>)[parse.i])]
    /\ UNCHANGED <<m, proc, fetch, abandoned, execs, edits, delivered, st, build, origin>>

\* extractCommandsFromText returns and the fallback returns its message
ParseFallbackReturn ==
    /\ parse.pc = "lines"
    /\ parse.i > Len(Split(parse.text, <<"\n">>))
    /\ parse' = [parse EXCEPT !.pc = "returned",
                              !.msg = IF Len(parse.out) > 0
                                      THEN SuggestionsMsg(parse.out, NoErr)
                                      ELSE SuggestionsMsg(<<>>, ErrParse)]
    /\ UNCHANGED <<m, proc, fetch, abandoned, execs, edits, delivered, st, build, origin>>

\* ------------------------------------------------------------ BuildPrompt
\* Prompt texts are sequences of pieces: a literal of the source is one
\* piece, and so is a path, a file name or a configured value.
\* maxFiles of GetDirectoryStructure
maxFiles == 100
\* maxTokens of BuildPrompt in terminal mode
TerminalMaxTokens == 500

\* the entries filepath.Walk visits below the working directory, in its
\* order, each with its depth below it (the folder and page icons the code
\* writes before a name are written here as [dir] and [file])
NoEntries == <<>>
OneFile == <<[name |-> "f.txt", dir |-> FALSE, depth |-> 1]>>
DirAndFiles ==
    <<[name |-> "d", dir |-> TRUE, depth |-> 1],
      [name |-> "g.go", dir |-> FALSE, depth |-> 2],
      [name |-> "h.md", dir |-> FALSE, depth |-> 1]>>

\* the environments a call may run in: os.Getwd succeeding with a path, or
\* failing, and what the directory holds
Envs ==
    {[os |-> "linux - amd64", cwdOK |-> TRUE, cwd |-> c, entries |-> e] :
        c \in {"/home/a", "/srv/b"}, e \in {NoEntries, OneFile, DirAndFiles}}
    \cup {[os |-> "linux - amd64", cwdOK |-> FALSE, cwd |-> "", entries |-> NoEntries]}

\* the configurations: the privacy flag and the user's system prompt
Confs ==
    {[ModelName |-> "gpt-4o-mini", PrivateMode |-> p, SysPrompt |-> sp,
      Temperature |-> "0.7", MaxTokens |-> 1000] :
        p \in BOOLEAN, sp \in {"", "be brief"}}

\* GetSystemInfo: runtime.GOOS + " - " + runtime.GOARCH
GetSystemInfo(env) == <<env.os>>

RECURSIVE WalkEntries(_, _, _)
\* the callback of filepath.Walk over the entries from k on, count entries
\* written so far: the text written, and the final count
WalkEntries(entries, k, count) ==
    IF k > Len(entries) \/ count >= maxFiles
    THEN [text |-> <<>>, count |-> count]
    ELSE LET e == entries[k]
         IN  IF e.depth > 1
             THEN WalkEntries(entries, k + 1, count)
             ELSE LET rest == WalkEntries(entries, k + 1, count + 1)
                  IN  [text |-> <<IF e.dir THEN "[dir] " ELSE "[file] ", e.name, "\n">>
                                \o rest.text,
                       count |-> rest.count]

\* GetDirectoryStructure(1)
GetDirectoryStructure(env) ==
    IF ~env.cwdOK THEN <<"Error getting current directory">>
    ELSE LET w == WalkEntries(env.entries, 1, 0)
         IN  w.text \o (IF w.count >= maxFiles
                        THEN <<"\n... (output limited to ", ToString(maxFiles), " entries)\n">>
                        ELSE <<>>)

\* buildSystemContext with the directory context added whatever the flag
buildSystemContext_AlwaysContext(conf, mode, env) ==
    (IF mode = "terminal"
     THEN <<"You are a command line expert. Help the user with their terminal commands.">>
     ELSE <<"You are a helpful assist.">>)
    \o <<"\nCurrent environment:\n- Operating system: ">> \o GetSystemInfo(env)
    \o (IF env.cwdOK
        THEN <<"\n- Working directory: ", env.cwd, "\nDirectory structure:\n">>
             \o GetDirectoryStructure(env)
        ELSE <<>>)
    \o (IF conf.SysPrompt # "" THEN <<"\nUser's system prompt: ", conf.SysPrompt>> ELSE <<>>)
    \o (IF mode = "terminal"
        THEN <<"\nStrictly respond with a JSON array of command suggestions formatted as follows: ...">>
        ELSE <<>>)

\* buildSystemContext
buildSystemContext(conf, mode, env) ==
    (IF mode = "terminal"
     THEN <<"You are a command line expert. Help the user with their terminal commands.">>
     ELSE <<"You are a helpful assist.">>)
    \o <<"\nCurrent environment:\n- Operating system: ">> \o GetSystemInfo(env)
    \o (IF ~conf.PrivateMode /\ env.cwdOK
        THEN <<"\n- Working directory: ", env.cwd, "\nDirectory structure:\n">>
             \o GetDirectoryStructure(env)
        ELSE <<>>)
    \o (IF conf.SysPrompt # "" THEN <<"\nUser's system prompt: ", conf.SysPrompt>> ELSE <<>>)
    \o (IF mode = "terminal"
        THEN <<"\nStrictly respond with a JSON array of command suggestions formatted as follows: ...">>
        ELSE <<>>)

\* BuildPrompt(userQuery, conf, mode), run in environment env
BuildPrompt(userQuery, conf, mode, env) ==
    [Model |-> conf.ModelName,
     Messages |->
        <<[Role |-> "system", Content |-> buildSystemContext(conf, mode, env)],
          [Role |-> "user",
           Content |-> IF mode = "terminal" THEN <<"User request: ", userQuery>>
                                            ELSE <<userQuery>>]>>,
     Temperature |-> IF mode = "terminal" THEN "0.0" ELSE conf.Temperature,
     MaxTokens |-> IF mode = "terminal" THEN TerminalMaxTokens ELSE conf.MaxTokens,
     ResponseFormat |-> IF mode = "terminal" THEN "json_object" ELSE "nil"]

\* no request built
NoRequest ==
    [Model |-> "", Messages |-> <<>>, Temperature |-> "", MaxTokens |-> 0,
     ResponseFormat |-> "nil"]

\* no call: the state of build outside the prompt specification
NoBuild ==
    [query |-> "", mode |-> "none", conf |-> CHOOSE c \in Confs : c.PrivateMode /\ c.SysPrompt = "",
     envs |-> <<>>, done |-> <<>>, reqs |-> <<>>]

\* the i-th of the two calls returns its request
BuildPromptCall(i) ==
    /\ i \in 1..Len(build.done)
    /\ ~build.done[i]
    /\ build' = [build EXCEPT
                    !.done[i] = TRUE,
                    !.reqs[i] = BuildPrompt(build.query, build.conf, build.mode, build.envs[i])]
    /\ UNCHANGED <<m, proc, fetch, abandoned, execs, edits, delivered, st, parse, origin>>

\* ------------------------------------------------- ChatCompletionStream
\* the bytes of event-stream lines
DataPrefix == <<"d", "a", "t", "a", ":", " ">>
DoneText == <<"[", "D", "O", "N", "E", "]">>
Chunk(i) == <<"{", i, "}">>
ChunkLine(i) == DataPrefix \o Chunk(i) \o <<"\n">>
DoneLine == DataPrefix \o DoneText \o <<"\n">>
BlankLine == <<"\n">>
BadLine == DataPrefix \o <<"{">> \o <<"\n">>
CommentLine == <<":", "k", "\n">>

\* the payloads json.Unmarshal decodes into a ChatCompletionsStreamResponse
ValidChunks == {Chunk("1"), Chunk("2")}

\* the response bodies the endpoint may send after a 200 status
\*   b1  two chunks and the sentinel
\*   b2  a chunk, the sentinel, and a chunk after it
\*   b3  the sentinel alone
\*   b4  a chunk, an undecodable line, a comment, a blank line, a chunk, the sentinel
\*   b5  a chunk, and a chunk that ends the body without a newline
\*   b6  a chunk, then the end of the body
\*   b7  an undecodable line, a chunk, then the end of the body
BodyIds == {"b1", "b2", "b3", "b4", "b5", "b6", "b7"}

BodyText(id) ==
    CASE id = "b1" -> ChunkLine("1") \o ChunkLine("2") \o DoneLine
      [] id = "b2" -> ChunkLine("1") \o DoneLine \o ChunkLine("2")
      [] id = "b3" -> DoneLine
      [] id = "b4" -> ChunkLine("1") \o BadLine \o CommentLine \o BlankLine
                      \o ChunkLine("2") \o DoneLine
      [] id = "b5" -> ChunkLine("1") \o DataPrefix \o Chunk("2")
      [] id = "b7" -> BadLine \o ChunkLine("1")
      [] OTHER -> ChunkLine("1")

\* reader.ReadBytes('\n') at offset off of the body: the bytes up to and
\* including the next newline, or the rest of the body and io.EOF
ReadBytes(body, off) ==
    LET rest == SubSeq(body, off + 1, Len(body))
        i == Index(rest, <<"\n">>)
    IN  IF i = 0
        THEN [line |-> rest, eof |-> TRUE, off |-> Len(body)]
        ELSE [line |-> SubSeq(rest, 1, i), eof |-> FALSE, off |-> off + i]

\* the loop without the check for the [DONE] sentinel
HandleLine_NoSentinel(raw) ==
    LET line == TrimSpace(raw)
        data == SubSeq(line, Len(DataPrefix) + 1, Len(line))
    IN  IF Len(line) = 0 THEN [do |-> "continue", chunk |-> <<>>]
        ELSE IF ~HasPrefix(line, DataPrefix) THEN [do |-> "continue", chunk |-> <<>>]
        ELSE IF data \notin ValidChunks THEN [do |-> "continue", chunk |-> <<>>]
        ELSE [do |-> "send", chunk |-> data]

\* the loop returning at a payload that does not decode, where the source
\* logs it and continues
HandleLine_AbortOnBadLine(raw) ==
    LET line == TrimSpace(raw)
        data == SubSeq(line, Len(DataPrefix) + 1, Len(line))
    IN  IF Len(line) = 0 THEN [do |-> "continue", chunk |-> <<>>]
        ELSE IF ~HasPrefix(line, DataPrefix) THEN [do |-> "continue", chunk |-> <<>>]
        ELSE IF data = DoneText THEN [do |-> "return", chunk |-> <<>>]
        ELSE IF data \notin ValidChunks THEN [do |-> "return", chunk |-> <<>>]
        ELSE [do |-> "send", chunk |-> data]

\* lines 190-209: what the loop does with a line that was read
\*   "continue", "return" ([DONE]), or "send" with the decoded chunk
HandleLine(raw) ==
    LET line == TrimSpace(raw)
        data == SubSeq(line, Len(DataPrefix) + 1, Len(line))
    IN  IF Len(line) = 0 THEN [do |-> "continue", chunk |-> <<>>]
        ELSE IF ~HasPrefix(line, DataPrefix) THEN [do |-> "continue", chunk |-> <<>>]
        ELSE IF data = DoneText THEN [do |-> "return", chunk |-> <<>>]
        ELSE IF data \notin ValidChunks THEN [do |-> "continue", chunk |-> <<>>]
        ELSE [do |-> "send", chunk |-> data]

\* no stream: the state of st outside the streaming specification
NoStream ==
    [body |-> "none", status |-> 0, rpc |-> "none", off |-> 0, chunk |-> <<>>,
     closes |-> 0, cancelled |-> FALSE, cpc |-> "none", got |-> <<>>,
     readErr |-> FALSE, gotAfterCancel |-> FALSE, exit |-> "none", errors |-> 0]

\* a close(responseChannel) at the sentinel on top of the deferred one
ReaderReturns_CloseAtSentinel(s, why) ==
    [s EXCEPT !.rpc = "exited", !.exit = why, !.chunk = <<>>,
              !.closes = s.closes + (IF why = "done" THEN 2 ELSE 1)]

\* defer close(responseChannel), run when the goroutine returns by path why
ReaderReturns(s, why) ==
    [s EXCEPT !.rpc = "exited", !.closes = s.closes + 1, !.exit = why, !.chunk = <<>>]

\* the statuses the endpoint may answer with
Statuses == {200, 204, 500}

\* the status check skipped: the channel is made and the goroutine started
\* whatever the status, and the error returned on top for a status not 200
StreamOpen_ReaderOnError(status) ==
    /\ st.rpc = "start"
    /\ IF status = 200
       THEN st' = [st EXCEPT !.status = status, !.rpc = "select", !.cpc = "range"]
       ELSE st' = [st EXCEPT !.status = status, !.rpc = "select", !.cpc = "error",
                             !.errors = st.errors + 1]
    /\ UNCHANGED <<m, proc, fetch, abandoned, execs, edits, delivered, parse, build, origin>>

\* client.Do of ChatCompletionStream returns the status; on 200 the channel is
\* made and the reader goroutine started, and the caller ranges over it; on
\* another status the error is returned with a nil channel
StreamOpen(status) ==
    /\ st.rpc = "start"
    /\ IF status = 200
       THEN st' = [st EXCEPT !.status = status, !.rpc = "select", !.cpc = "range"]
       ELSE st' = [st EXCEPT !.status = status, !.rpc = "none", !.cpc = "error",
                             !.errors = st.errors + 1]
    /\ UNCHANGED <<m, proc, fetch, abandoned, execs, edits, delivered, parse, build, origin>>

\* client.Do of ChatCompletionStream returns an error: it is returned to the
\* caller with a nil channel
StreamDoFails ==
    /\ st.rpc = "start"
    /\ st' = [st EXCEPT !.rpc = "none", !.cpc = "error", !.errors = st.errors + 1]
    /\ UNCHANGED <<m, proc, fetch, abandoned, execs, edits, delivered, parse, build, origin>>

\* the select at the top of the loop: ctx.Done() if it is ready, else default
ReaderSelect ==
    /\ st.rpc = "select"
    /\ IF st.cancelled
       THEN st' = ReaderReturns(st, "cancelled")
       ELSE st' = [st EXCEPT !.rpc = "read"]
    /\ UNCHANGED <<m, proc, fetch, abandoned, execs, edits, delivered, parse, build, origin>>

\* the default branch: ReadBytes returns a line, or the end of the body
ReaderReadLine ==
    /\ st.rpc = "read"
    /\ LET r == ReadBytes(BodyText(st.body), st.off)
           h == HandleLine(r.line)
       IN  IF r.eof THEN st' = ReaderReturns([st EXCEPT !.off = r.off], "eof")
           ELSE IF h.do = "return" THEN st' = ReaderReturns([st EXCEPT !.off = r.off], "done")
           ELSE IF h.do = "send"
           THEN st' = [st EXCEPT !.off = r.off, !.rpc = "send", !.chunk = h.chunk]
           ELSE st' = [st EXCEPT !.off = r.off, !.rpc = "select"]
    /\ UNCHANGED <<m, proc, fetch, abandoned, execs, edits, delivered, parse, build, origin>>

\* the default branch: ReadBytes returns an error other than io.EOF (the
\* connection broke, or the context was cancelled under the read)
ReaderReadError ==
    /\ st.rpc = "read"
    /\ st' = ReaderReturns([st EXCEPT !.readErr = TRUE], "error")
    /\ UNCHANGED <<m, proc, fetch, abandoned, execs, edits, delivered, parse, build, origin>>

\* responseChannel <- &streamResponse meets the receive of the range loop
StreamDeliver ==
    /\ st.rpc = "send"
    /\ st.cpc = "range"
    /\ st' = [st EXCEPT !.rpc = "select", !.chunk = <<>>,
                        !.got = Append(st.got, st.chunk),
                        !.gotAfterCancel = (st.gotAfterCancel \/ st.cancelled)]
    /\ UNCHANGED <<m, proc, fetch, abandoned, execs, edits, delivered, parse, build, origin>>

\* the range loop finds the channel closed and ends
ConsumerSeesClose ==
    /\ st.cpc = "range"
    /\ st.closes > 0
    /\ st' = [st EXCEPT !.cpc = "done"]
    /\ UNCHANGED <<m, proc, fetch, abandoned, execs, edits, delivered, parse, build, origin>>

\* the caller's context is cancelled (its deadline passes)
StreamCancel ==
    /\ st.rpc \in {"select", "read", "send"}
    /\ ~st.cancelled
    /\ st' = [st EXCEPT !.cancelled = TRUE]
    /\ UNCHANGED <<m, proc, fetch, abandoned, execs, edits, delivered, parse, build, origin>>

\* a caller that stops receiving from the channel once its context is
\* cancelled (it returns from its loop without waiting for the close)
ConsumerStops ==
    /\ st.cpc = "range"
    /\ st.cancelled
    /\ st' = [st EXCEPT !.cpc = "stopped"]
    /\ UNCHANGED <<m, proc, fetch, abandoned, execs, edits, delivered, parse, build, origin>>

\* ---------------------------------------------------------- specifications
Init ==
    /\ \E ok \in BOOLEAN : m = NewVirtualTerminalModel(ok)
    /\ proc = "running"
    /\ fetch = IdleFetch
    /\ abandoned = FALSE
    /\ execs = <<>>
    /\ edits = 0
    /\ delivered = <<>>
    /\ st = NoStream
    /\ parse = NoParse
    /\ build = NoBuild
    /\ origin = <<>>

Next ==
    \/ KeyQuit \/ KeyTab \/ KeyUp \/ KeyDown \/ KeyEnter \/ KeyBackspace
    \/ KeyDelete \/ KeyLeft \/ KeyRight \/ KeyEsc \/ KeyRunes \/ KeyOther
    \/ \E i \in 1..Len(execs) : CommandOutputMsg(i)
    \/ \E i \in 1..Len(execs) : ExecuteResultMsg(i)
    \/ HTTPDoFails \/ AbandonedDoFails
    \/ HTTPDoReturns
    \/ \E reply \in Replies : HTTPFinish(reply)
    \/ ContextDeadline \/ TimerFires
    \/ SelectResponse \/ SelectError \/ SelectTimeout
    \/ SuggestionsMsgEvent

Spec == Init /\ [][Next]_vars

\* one streaming request, as StartConversationMode makes it
StreamInit ==
    /\ m = NewVirtualTerminalModel(TRUE)
    /\ proc = "running"
    /\ fetch = IdleFetch
    /\ abandoned = FALSE
    /\ execs = <<>>
    /\ edits = 0
    /\ delivered = <<>>
    /\ \E b \in BodyIds : st = [NoStream EXCEPT !.body = b, !.rpc = "start"]
    /\ parse = NoParse
    /\ build = NoBuild
    /\ origin = <<>>

StreamNext ==
    \/ \E status \in Statuses : StreamOpen(status)
    \/ StreamDoFails
    \/ ReaderSelect \/ ReaderReadLine \/ ReaderReadError
    \/ StreamDeliver \/ ConsumerSeesClose \/ StreamCancel

StreamSpec == StreamInit /\ [][StreamNext]_vars

\* the same with a caller that may stop receiving after cancelling, and with
\* every goroutine that can take a step taking it eventually: the select,
\* the read (a line, the end of the body or an error), the send meeting a
\* receive, the range loop seeing the close
StreamLiveNext ==
    \/ \E status \in Statuses : StreamOpen(status)
    \/ StreamDoFails
    \/ ReaderSelect \/ ReaderReadLine \/ ReaderReadError
    \/ StreamDeliver \/ ConsumerSeesClose \/ StreamCancel
    \/ ConsumerStops

StreamFairness ==
    /\ WF_vars(ReaderSelect)
    /\ WF_vars(ReaderReadLine \/ ReaderReadError)
    /\ WF_vars(StreamDeliver)
    /\ WF_vars(ConsumerSeesClose)

StreamLiveSpec == StreamInit /\ [][StreamLiveNext]_vars /\ StreamFairness

\* one response content handed to the parsing of getCommandSuggestions
ParseInit ==
    /\ m = NewVirtualTerminalModel(TRUE)
    /\ proc = "running"
    /\ fetch = IdleFetch
    /\ abandoned = FALSE
    /\ execs = <<>>
    /\ edits = 0
    /\ delivered = <<>>
    /\ st = NoStream
    /\ \E inp \in ParserInputs :
          parse = [NoParse EXCEPT !.text = inp.text, !.json = inp.json, !.pc = "unmarshal"]
    /\ build = NoBuild
    /\ origin = <<>>

ParseNext == ParseUnmarshal \/ ParseFlatten \/ ParseLine \/ ParseFallbackReturn

ParseSpec == ParseInit /\ [][ParseNext]_vars

\* the same query, configuration and mode handed to BuildPrompt in two
\* environments
PromptInit ==
    /\ m = NewVirtualTerminalModel(TRUE)
    /\ proc = "running"
    /\ fetch = IdleFetch
    /\ abandoned = FALSE
    /\ execs = <<>>
    /\ edits = 0
    /\ delivered = <<>>
    /\ st = NoStream
    /\ parse = NoParse
    /\ \E q \in {"list files", "cd /home/a"}, conf \in Confs, mode \in {"terminal", "chat"},
          e1 \in Envs, e2 \in Envs :
          build = [query |-> q, mode |-> mode, conf |-> conf, envs |-> <<e1, e2>>,
                   done |-> <<FALSE, FALSE>>, reqs |-> <<NoRequest, NoRequest>>]
    /\ origin = <<>>

PromptNext == \E i \in 1..2 : BuildPromptCall(i)

PromptSpec == PromptInit /\ [][PromptNext]_vars

\* a batch of one, two or three suggestions has arrived; edits counts the
\* keys handled since
EditInit ==
    /\ \E id \in {"one", "two", "three"} :
          \E suggs \in StrictSuggestions(ContentJSON(id)) : m = ModelWithBatch(suggs)
    /\ proc = "running"
    /\ fetch = IdleFetch
    /\ abandoned = FALSE
    /\ execs = <<>>
    /\ edits = 0
    /\ delivered = <<>>
    /\ st = NoStream
    /\ parse = NoParse
    /\ build = NoBuild
    /\ origin = m.query

EditNext == \E key \in EditKeys : EditKey(key)

EditSpec == EditInit /\ [][EditNext]_vars

\* ------------------------------------ executions of suggested commands
\* execute sequences in flight at once in a session that only executes
MaxDispatch == 2
\* what the spawned processes may print
ExecStdouts == {<<"o">>, <<"p">>}
\* the keys that execute, acknowledge a result and navigate
ExecKeys == {Key(t) : t \in {"enter", "esc", "down"}}

\* p.Run() hands a key to Update and starts the tea.Sequence it may return:
\* executeCommand(command), then executeResultMsg
ExecKey(key) ==
    /\ Running
    /\ edits < MaxKeys
    /\ LET r == UpdateKey(m, key)
       IN  /\ r.cmd.op \in {"none", "exec"}
           /\ m' = r.m
           /\ IF r.cmd.op = "exec"
              THEN /\ Len(execs) < MaxDispatch
                   /\ \E stdout \in ExecStdouts :
                         execs' = Append(execs, [out |-> CommandOutput(r.cmd.arg, stdout),
                                                 stage |-> "run"])
              ELSE execs' = execs
    /\ edits' = edits + 1
    /\ UNCHANGED <<proc, fetch, abandoned, delivered, st, parse, build, origin>>

\* a batch of two suggestions has arrived
ExecInit ==
    /\ \E suggs \in StrictSuggestions(ContentJSON("two")) : m = ModelWithBatch(suggs)
    /\ proc = "running"
    /\ fetch = IdleFetch
    /\ abandoned = FALSE
    /\ execs = <<>>
    /\ edits = 0
    /\ delivered = <<>>
    /\ st = NoStream
    /\ parse = NoParse
    /\ build = NoBuild
    /\ origin = m.query

ExecNext ==
    \/ \E key \in ExecKeys : ExecKey(key)
    \/ \E i \in 1..Len(execs) : CommandOutputMsg(i)
    \/ \E i \in 1..Len(execs) : ExecuteResultMsg(i)

ExecSpec == ExecInit /\ [][ExecNext]_vars

\* ------------------------------------------------------------- properties
\* the step in which Update handles the suggestionsMsg of the pending fetch
Handled == proc' = "running" /\ Len(delivered') = Len(delivered) + 1

\* QueryInput: the query flag alone is set and a typed rune reaches the input
InQueryInput(mm) ==
    /\ mm.queryMode
    /\ ~mm.directCommandMode
    /\ \A r \in SessionRunes :
          UpdateKey(mm, [type |-> "runes", runes |-> r]).m.input = mm.input \o r

\* suggestion browse: neither input flag is set (the guard of line 134)
InSuggestionMode(mm) == ~mm.queryMode /\ ~mm.directCommandMode

\* C1: an error on the fetch path (client.Do failing with a connect or I/O
\* error, or because the context deadline passed) never ends the process:
\* the interactive loop keeps running.
C1_FetchErrorsNeverCrash == proc # "crashed"

\* C2: when Update handles a suggestionsMsg without error and with zero
\* suggestions, the session is back in QueryInput with the error set; it
\* does not enter suggestion browse mode with an empty list.
C2_EmptyBatchReturnsToQuery ==
    [][(Handled /\ fetch.msg.err = NoErr /\ Len(fetch.msg.suggestions) = 0)
         => (InQueryInput(m') /\ m'.err # NoErr /\ ~InSuggestionMode(m'))]_vars

\* C3: when Update handles a suggestionsMsg without error and with n >= 1
\* suggestions, the list becomes exactly those n suggestions in order, each
\* with editedCommand = command and the cursor at its end, selected is 0,
\* loading is false and the mode is suggestion browse.
C3_BatchReplaced ==
    [][(Handled /\ fetch.msg.err = NoErr /\ Len(fetch.msg.suggestions) >= 1)
         => /\ Len(m'.suggestions) = Len(fetch.msg.suggestions)
            /\ \A i \in 1..Len(fetch.msg.suggestions) :
                  /\ m'.suggestions[i].Command = fetch.msg.suggestions[i].Command
                  /\ m'.suggestions[i].Description = fetch.msg.suggestions[i].Description
                  /\ m'.suggestions[i].EditedCommand = fetch.msg.suggestions[i].Command
                  /\ m'.suggestions[i].CursorPosition = Len(fetch.msg.suggestions[i].Command)
            /\ m'.selected = 0
            /\ ~m'.loading
            /\ InSuggestionMode(m')]_vars

\* a batch of two has just replaced the list
C3_Witness ==
    /\ proc = "running"
    /\ delivered = <<NoErr>>
    /\ fetch.c = "idle"
    /\ Len(m.suggestions) = 2
    /\ edits = 0
    /\ m.selected = 0
    /\ InSuggestionMode(m)

\* C4: when Update handles a suggestionsMsg that carries an error, loading
\* becomes false, the session is in QueryInput, err is that error, and the
\* suggestion list, its edits and selected are what they were.
C4_ErrorReturnsToQuery ==
    [][(Handled /\ fetch.msg.err # NoErr)
         => /\ ~m'.loading
            /\ InQueryInput(m')
            /\ m'.err = fetch.msg.err
            /\ m'.suggestions = m.suggestions
            /\ m'.selected = m.selected]_vars

\* an error was handled while an edited batch of two with the second
\* suggestion selected was held
C4_Witness ==
    /\ proc = "running"
    /\ Len(delivered) = 1
    /\ delivered[1] # NoErr
    /\ m.err = delivered[1]
    /\ fetch.c = "idle"
    /\ ~m.loading
    /\ m.queryMode
    /\ Len(m.suggestions) = 2
    /\ m.selected = 1
    /\ edits > 0

\* C5: no error persists across a new query: once the batch of the query
\* submitted last has been handled without error, err is nil.
C5_ErrorClearedByNewQuery == delivered = <<NoErr>> => m.err = NoErr

\* C6: every dispatched fetch has exactly one suggestionsMsg handled: never
\* more than one, and the process does not end (other than by a quit key)
\* while the message of a dispatched fetch is still outstanding.
C6_ExactlyOneCompletion ==
    /\ Len(delivered) <= 1
    /\ ~(proc = "crashed" /\ fetch.c # "idle")

\* C7: when the deadline has passed without a response, the fetch ends with
\* the timeout error handled, not another error and not none.
C7_TimeoutErrorDelivered ==
    (fetch.unanswered /\ (proc = "crashed" \/ fetch.c = "idle"))
        => delivered = <<ErrTimeout>>

\* the lines of a body: the text between newlines
BodyLines(id) == Split(BodyText(id), <<"\n">>)

\* the first line that is the sentinel line, 0 when there is none
SentinelAt(lines) ==
    LET hits == {i \in 1..Len(lines) : lines[i] = DataPrefix \o DoneText}
    IN  IF hits = {} THEN 0 ELSE CHOOSE i \in hits : \A j \in hits : i <= j

\* the body is k well-formed chunk lines followed by the sentinel line
ChunksThenSentinel(id) ==
    LET lines == BodyLines(id)
        d == SentinelAt(lines)
    IN  /\ d > 0
        /\ \A i \in 1..(d - 1) : \E c \in ValidChunks : lines[i] = DataPrefix \o c

\* the k chunks of such a body, in body order
ChunksBeforeSentinel(id) ==
    LET lines == BodyLines(id)
    IN  [i \in 1..(SentinelAt(lines) - 1) |->
            SubSeq(lines[i], Len(DataPrefix) + 1, Len(lines[i]))]

IsPrefix(a, b) == Len(a) <= Len(b) /\ SubSeq(b, 1, Len(a)) = a

\* C8: for a 200 response whose body is k well-formed data lines followed by
\* the sentinel, what the consumer has received is always a prefix of those
\* k chunks (each once, in body order, nothing from after the sentinel), and
\* when the reader returned at the sentinel, or the consumer saw the channel
\* closed with no cancellation and no read error, it is all k of them.
C8_ChunksInOrderThenClosed ==
    ChunksThenSentinel(st.body) =>
        /\ IsPrefix(st.got, ChunksBeforeSentinel(st.body))
        /\ st.exit = "done" => st.got = ChunksBeforeSentinel(st.body)
        /\ (st.cpc = "done" /\ ~st.cancelled /\ ~st.readErr)
              => st.got = ChunksBeforeSentinel(st.body) /\ st.exit = "done"

\* the consumer of the body with a chunk after the sentinel has received the
\* one chunk before it and seen the channel closed
C8_Witness ==
    /\ st.body = "b2"
    /\ st.cpc = "done"
    /\ st.exit = "done"
    /\ st.got = <<Chunk("1")>>
    /\ ~st.cancelled

\* C9: no chunk is received by the consumer after the caller's context has
\* been cancelled.
C9_NoChunkAfterCancel == ~st.gotAfterCancel

\* C10: the channel is closed exactly once on every path by which the reader
\* returns, never twice, and the reader attempts no send on a closed channel.
C10_ClosedExactlyOnce ==
    /\ st.closes <= 1
    /\ st.rpc = "exited" <=> st.closes = 1
    /\ st.rpc = "send" => st.closes = 0
    /\ st.rpc = "exited" => st.exit \in {"done", "eof", "error", "cancelled"}

\* the reader returned at the sentinel and the consumer saw the one close
C10_Witness ==
    /\ st.rpc = "exited"
    /\ st.exit = "done"
    /\ st.closes = 1
    /\ st.cpc = "done"

\* the lines of a body that end in a newline: those ReadBytes returns
\* without io.EOF
TerminatedLines(id) ==
    LET lines == BodyLines(id) IN SubSeq(lines, 1, Len(lines) - 1)

\* the lines the reader gets to: those before the sentinel, or all of them
LinesBeforeTerminator(id) ==
    LET lines == TerminatedLines(id)
        d == SentinelAt(lines)
    IN  IF d = 0 THEN lines ELSE SubSeq(lines, 1, d - 1)

\* a data line whose payload is a decodable chunk
IsChunkLine(line) == \E c \in ValidChunks : line = DataPrefix \o c

\* the payloads of the well-formed chunk lines among lines, in order
ChunksOf(lines) ==
    LET good == SelectSeq(lines, IsChunkLine)
    IN  [i \in 1..Len(good) |-> SubSeq(good[i], Len(DataPrefix) + 1, Len(good[i]))]

\* the body has a malformed line before its terminator: a data line whose
\* payload does not decode, or a non-blank line without the data prefix
HasMalformedLine(id) ==
    \E i \in 1..Len(LinesBeforeTerminator(id)) :
        LET line == LinesBeforeTerminator(id)[i]
        IN  line # <<>> /\ ~IsChunkLine(line)

\* C11: a malformed line in the body (a data line whose payload does not
\* decode, or a line without the data prefix) does not end the stream: what
\* the consumer has received is always a prefix of ALL the well-formed chunks
\* before the terminator, those after the malformed line included, and once
\* the consumer saw the channel closed with no cancellation and no read error
\* it has received every one of them, in order.
C11_MalformedLinesSkipped ==
    HasMalformedLine(st.body) =>
        /\ IsPrefix(st.got, ChunksOf(LinesBeforeTerminator(st.body)))
        /\ (st.cpc = "done" /\ ~st.cancelled /\ ~st.readErr)
              => st.got = ChunksOf(LinesBeforeTerminator(st.body))

\* the body with an undecodable line, a comment and a blank line between two
\* chunks was read to its sentinel and both chunks were received
C11_Witness ==
    /\ st.body = "b4"
    /\ st.cpc = "done"
    /\ st.exit = "done"
    /\ st.got = <<Chunk("1"), Chunk("2")>>
    /\ ~st.cancelled

\* C12: when the streaming request is answered with a non-2xx status, the
\* caller gets one error and no channel: no reader goroutine exists, no
\* channel is ever closed or sent on, and no chunk is received.
C12_ErrorStatusNoStream ==
    (st.status # 0 /\ st.status \notin 200..299) =>
        /\ st.cpc = "error"
        /\ st.errors = 1
        /\ st.rpc = "none"
        /\ st.closes = 0
        /\ st.chunk = <<>>
        /\ st.got = <<>>

\* a request answered with status 500 has returned its error
C12_Witness ==
    /\ st.status = 500
    /\ st.cpc = "error"
    /\ st.errors = 1
    /\ st.rpc = "none"

\* a JSON array of single-key objects, each mapping to a single-key object
\* whose value is a string
IsOrdinalArray(j) ==
    /\ j.t = "arr"
    /\ \A i \in 1..Len(j.v) :
          /\ j.v[i].t = "obj"
          /\ Len(j.v[i].v) = 1
          /\ j.v[i].v[1][2].t = "obj"
          /\ Len(j.v[i].v[1][2].v) = 1
          /\ j.v[i].v[1][2].v[1][2].t = "str"

\* C13: for a content that is a JSON array of n single-key ordinal objects,
\* each mapping to a single-key object {command: description}, the parsing
\* returns no error and exactly n suggestions, the i-th with the command and
\* the description of the i-th element of the array.
C13_StrictParseInArrayOrder ==
    (parse.pc = "returned" /\ IsOrdinalArray(parse.json)) =>
        /\ parse.msg.err = NoErr
        /\ Len(parse.msg.suggestions) = Len(parse.json.v)
        /\ \A i \in 1..Len(parse.json.v) :
              /\ parse.msg.suggestions[i].Command = parse.json.v[i].v[1][2].v[1][1]
              /\ parse.msg.suggestions[i].Description = parse.json.v[i].v[1][2].v[1][2].v

\* the array of three ordinal objects was parsed into three suggestions
C13_Witness ==
    /\ parse.pc = "returned"
    /\ parse.json = ContentJSON("three")
    /\ Len(parse.msg.suggestions) = 3
    /\ parse.msg.suggestions[1].Command = <<"l", " ", "-", "a">>
    /\ parse.msg.suggestions[3].Description = <<"s">>

\* the strict decode yields no suggestion, whatever the order of its maps
StrictYieldsNothing(j) ==
    UnmarshalOK(j) /\ \A suggs \in StrictSuggestions(j) : Len(suggs) = 0

\* C14: whenever the strict decode returns an error or decodes to nothing,
\* the suggestions returned are those of extractCommandsFromText applied to
\* the content.
C14_FallbackOnErrorOrEmpty ==
    (parse.pc = "returned" /\ (~UnmarshalOK(parse.json) \/ StrictYieldsNothing(parse.json)))
        => [i \in 1..Len(parse.msg.suggestions) |->
               <<parse.msg.suggestions[i].Command, parse.msg.suggestions[i].Description>>]
           = [i \in 1..Len(extractCommandsFromText(parse.text)) |->
               <<extractCommandsFromText(parse.text)[i].Command,
                 extractCommandsFromText(parse.text)[i].Description>>]

\* what the claim gives for one line: nothing for an empty line, a line that
\* starts with a comment marker, a line without separator and a line with
\* nothing before its separator; else the texts around the first " - ", or
\* around the first ": " when there is no " - ", without surrounding space
ExpectedOfLine(raw) ==
    LET line == TrimSpace(raw)
        dash == Index(line, <<" ", "-", " ">>)
        colon == Index(line, <<":", " ">>)
        at == IF dash > 0 THEN dash ELSE colon
        width == IF dash > 0 THEN 3 ELSE 2
        before == TrimSpace(SubSeq(line, 1, at - 1))
        after == TrimSpace(SubSeq(line, at + width, Len(line)))
    IN  IF \/ line = <<>>
           \/ at = 0
           \/ HasPrefix(line, <<"#">>)
           \/ HasPrefix(line, <<"/", "/">>)
           \/ before = <<>>
        THEN <<>>
        ELSE << <<before, after>> >>

RECURSIVE ExpectedOfLines(_, _)
\* the same for the first k lines, in line order
ExpectedOfLines(lines, k) ==
    IF k = 0 THEN <<>>
    ELSE ExpectedOfLines(lines, k - 1) \o ExpectedOfLine(lines[k])

\* C15: in the fallback, after the first k lines the suggestions collected
\* are, in line order, at most one per line: none for an empty line, a line
\* starting with # or // and a line without separator, else the text before
\* the first " - " (or, without one, the first ": ") as command and the text
\* after it as description; and the text of a command line, a comment line
\* and a command line yields exactly two suggestions.
C15_FallbackLineParse ==
    /\ parse.pc = "lines" =>
          [i \in 1..Len(parse.out) |->
              <<parse.out[i].Command, parse.out[i].Description>>]
          = ExpectedOfLines(Split(parse.text, <<"\n">>), parse.i - 1)
    /\ (parse.pc = "returned" /\ parse.text = ExampleText) =>
          /\ parse.msg.err = NoErr
          /\ Len(parse.msg.suggestions) = 2
          /\ parse.msg.suggestions[1].Command = <<"l", " ", "-", "a">>
          /\ parse.msg.suggestions[2].Command = <<"g", " ", "-", "r">>

\* the example text was parsed into its two suggestions
C15_Witness ==
    /\ parse.pc = "returned"
    /\ parse.text = ExampleText
    /\ Len(parse.out) = 2
    /\ parse.msg.suggestions = parse.out

\* suggestion browse and edit: a list is held, neither input flag is set, no
\* fetch is pending and no result is displayed
Browsing(mm) == ~mm.loading /\ ~mm.showResult /\ CanBrowse(mm)

RECURSIVE Navigate(_, _, _)
\* k navigations in one direction
Navigate(mm, dir, k) ==
    IF k = 0 THEN mm ELSE Navigate(UpdateKey(mm, Key(dir)).m, dir, k - 1)

\* C16: with n > 0 suggestions in browse mode, up sets selected to
\* (selected - 1 + n) mod n and down to (selected + 1 + n) mod n, changing
\* nothing else; n navigations in one direction give back the model, and so
\* do up then down and down then up.
C16_NavigationWraps ==
    /\ [][(Browsing(m) /\ EditKey(Key("up")))
            => m' = [m EXCEPT !.selected = (m.selected - 1 + Len(m.suggestions))
                                             % Len(m.suggestions)]]_vars
    /\ [][(Browsing(m) /\ EditKey(Key("down")))
            => m' = [m EXCEPT !.selected = (m.selected + 1 + Len(m.suggestions))
                                             % Len(m.suggestions)]]_vars
    /\ [](Browsing(m) =>
            /\ Navigate(m, "up", Len(m.suggestions)) = m
            /\ Navigate(m, "down", Len(m.suggestions)) = m
            /\ Navigate(Navigate(m, "up", 1), "down", 1) = m
            /\ Navigate(Navigate(m, "down", 1), "up", 1) = m)

\* one up from the first of three suggestions: the last one is selected
C16_Witness ==
    /\ Browsing(m)
    /\ Len(m.suggestions) = 3
    /\ m.selected = 2
    /\ edits = 1

\* every suggestion is as it arrived
AllReset(suggs) ==
    \A i \in 1..Len(suggs) :
        /\ suggs[i].EditedCommand = suggs[i].Command
        /\ suggs[i].CursorPosition = Len(suggs[i].Command)

\* the same commands and descriptions, in the same order
SameBatch(a, b) ==
    /\ Len(a) = Len(b)
    /\ \A i \in 1..Len(a) :
          a[i].Command = b[i].Command /\ a[i].Description = b[i].Description

C18_CursorBoundNoOps ==
    /\ [][(CanEdit(m) /\ Sel(m).CursorPosition = 0
              /\ (EditKey(Key("backspace")) \/ EditKey(Key("left"))))
            => m' = m]_vars
    /\ [][(CanEdit(m) /\ Sel(m).CursorPosition = Len(Sel(m).EditedCommand)
              /\ (EditKey(Key("delete")) \/ EditKey(Key("right"))))
            => m' = m]_vars
    /\ [](\A i \in 1..Len(m.suggestions) :
             /\ m.suggestions[i].CursorPosition >= 0
             /\ m.suggestions[i].CursorPosition <= Len(m.suggestions[i].EditedCommand))

\* the cursor of the only suggestion is at 0 after two lefts and a key that
\* changed nothing
C18_Witness ==
    /\ Browsing(m)
    /\ Len(m.suggestions) = 1
    /\ Sel(m).CursorPosition = 0
    /\ Sel(m).EditedCommand = Sel(m).Command
    /\ Len(Sel(m).Command) = 2
    /\ edits = 3

\* QueryInput proper: no fetch pending and no result displayed
QueryInputState(mm) == InQueryInput(mm) /\ ~mm.loading /\ ~mm.showResult

\* C19: Enter in QueryInput with a non-empty input buffer stores the buffer
\* as the query, clears the buffer, sets loading and starts one fetch for
\* that query, none being in flight; with an empty buffer no fetch is
\* started and loading stays false.
C19_SubmitQuery ==
    [][(QueryInputState(m) /\ KeyEnter)
         => IF InputValue(m) # <<>>
            THEN /\ m'.query = InputValue(m)
                 /\ m'.input = <<>>
                 /\ m'.loading
                 /\ UpdateKey(m, Key("enter")).cmd = FetchCmd(InputValue(m))
                 /\ fetch.c = "idle"
                 /\ fetch'.c \in {"select", "returned"}
                 /\ delivered' = <<>>
            ELSE /\ ~m'.loading
                 /\ UpdateKey(m, Key("enter")).cmd = NoCmd
                 /\ fetch' = fetch]_vars

\* the query "x" was submitted: its fetch is waiting in the select
C19_Witness ==
    /\ proc = "running"
    /\ m.loading
    /\ m.query = RuneX
    /\ m.input = <<>>
    /\ ~m.queryMode
    /\ fetch.c = "select"
    /\ delivered = <<>>

\* C20: Enter in suggestion browse/edit mode dispatches the execution of
\* exactly the selected suggestion's editedCommand; Enter in direct command
\* mode dispatches the execution of the input buffer's content and clears
\* the buffer, and dispatches nothing when the buffer is empty.
C20_ExecuteDispatchesRightText ==
    [][(~m.loading /\ ~m.showResult /\ KeyEnter)
         => /\ CanBrowse(m) =>
                 /\ UpdateKey(m, Key("enter")).cmd = ExecCmd(Sel(m).EditedCommand)
                 /\ m' = m
                 /\ Len(execs') = Len(execs) + 1
                 /\ \E stdout \in Stdouts :
                       execs'[Len(execs')] =
                          [out |-> CommandOutput(Sel(m).EditedCommand, stdout), stage |-> "run"]
            /\ (m.directCommandMode /\ InputValue(m) # <<>>) =>
                 /\ UpdateKey(m, Key("enter")).cmd = ExecCmd(InputValue(m))
                 /\ m' = [m EXCEPT !.input = <<>>]
                 /\ Len(execs') = Len(execs) + 1
                 /\ \E stdout \in Stdouts :
                       execs'[Len(execs')] =
                          [out |-> CommandOutput(InputValue(m), stdout), stage |-> "run"]
            /\ (m.directCommandMode /\ InputValue(m) = <<>>) =>
                 /\ UpdateKey(m, Key("enter")).cmd = NoCmd
                 /\ execs' = execs
                 /\ fetch' = fetch]_vars

\* the selected suggestion was edited and its execution is in flight
C20_Witness ==
    /\ proc = "running"
    /\ CanBrowse(m)
    /\ ~m.showResult
    /\ edits = 1
    /\ Sel(m).EditedCommand # Sel(m).Command
    /\ Len(execs) = 1
    /\ execs[1].stage = "run"

\* C21: while a result is shown (and no fetch is pending), Enter hides it
\* and the session is in QueryInput with the suggestion list, the query, the
\* input buffer and the stored result empty; Esc hides it, empties the
\* stored result and keeps the list with its edits and selected, and the
\* session is in suggestion browse mode when the list is non-empty and in
\* QueryInput otherwise.
C21_AcknowledgeResult ==
    /\ [][(m.showResult /\ ~m.loading /\ KeyEnter)
            => /\ ~m'.showResult
               /\ InQueryInput(m')
               /\ m'.suggestions = <<>>
               /\ m'.query = <<>>
               /\ m'.input = <<>>
               /\ m'.commandResult = <<>>]_vars
    /\ [][(m.showResult /\ ~m.loading /\ KeyEsc)
            => /\ ~m'.showResult
               /\ m'.commandResult = <<>>
               /\ m'.suggestions = m.suggestions
               /\ m'.selected = m.selected
               /\ IF Len(m.suggestions) > 0 THEN InSuggestionMode(m')
                                             ELSE InQueryInput(m')]_vars

\* C22: a quit key ends the session from every state of the running
\* session, a fetch or an execution pending or not: Update returns tea.Quit
\* for it, and the step that handles it ends the process without any
\* completion message being handled first.
C22_QuitFromEveryState ==
    /\ [](Running => \A k \in QuitKeys :
                        UpdateKey(m, Key(k)).cmd = QuitCmd /\ WithinBounds(Key(k)))
    /\ [][KeyQuit => proc' = "quit"]_vars

\* the session was quit with the closure of a fetch in its select and the
\* first command of an execute sequence running
C22_Witness ==
    /\ proc = "quit"
    /\ fetch.c = "select"
    /\ Len(execs) = 1
    /\ execs[1].stage = "run"


\* ---------------------------------------------------------------- C23
Pieces(text) == {text[k] : k \in 1..Len(text)}
SystemContent(req) == req.Messages[1].Content
\* what a prompt can carry of the directory a call runs in
LocalPieces(env) ==
    {"\n- Working directory: ", "\nDirectory structure:\n", env.cwd}
    \cup {env.entries[k].name : k \in 1..Len(env.entries)}
BothBuilt == Len(build.done) = 2 /\ build.done[1] /\ build.done[2]

\* C23: with PrivateMode set, BuildPrompt returns the same request in any two
\* working directories with any contents, and its system message carries no
\* working-directory path and no directory structure; with PrivateMode unset
\* (and os.Getwd succeeding) the path and the first-level entries are embedded.
C23_PrivateModeHidesDirectory ==
    BothBuilt =>
        /\ build.conf.PrivateMode =>
              /\ build.reqs[1] = build.reqs[2]
              /\ \A i \in 1..2 :
                    Pieces(SystemContent(build.reqs[i])) \cap LocalPieces(build.envs[i]) = {}
        /\ ~build.conf.PrivateMode =>
              \A i \in 1..2 :
                 build.envs[i].cwdOK =>
                    /\ build.envs[i].cwd \in Pieces(SystemContent(build.reqs[i]))
                    /\ \A k \in 1..Len(build.envs[i].entries) :
                          build.envs[i].entries[k].depth = 1
                             => build.envs[i].entries[k].name
                                   \in Pieces(SystemContent(build.reqs[i]))

\* both requests built with PrivateMode set, in two directories that differ in
\* path and in contents
C23_Witness ==
    /\ BothBuilt
    /\ build.conf.PrivateMode
    /\ build.envs[1].cwdOK /\ build.envs[2].cwdOK
    /\ build.envs[1].cwd # build.envs[2].cwd
    /\ build.envs[1].entries = OneFile /\ build.envs[2].entries = DirAndFiles
    /\ build.reqs[1] = build.reqs[2]
    /\ build.reqs[1] # NoRequest


\* ---------------------------------------------------------------- C24
\* C24: while an execution is in flight (dispatched, its completion messages
\* not yet both handled) Enter dispatches no second execution.
C24_OneExecutionInFlight ==
    (Running /\ Len(execs) > 0) => UpdateKey(m, Key("enter")).cmd.op # "exec"

\* ---------------------------------------------------------------- C25
\* every key of a session
SessionKeys ==
    {Key(t) : t \in {"tab", "up", "down", "enter", "backspace", "delete", "left",
                     "right", "esc", "home"} \cup QuitKeys}
    \cup {[type |-> "runes", runes |-> r] : r \in SessionRunes}

\* C25: loading is true exactly while a fetch is in flight (from the Enter
\* that submits the query until Update handles that fetch's suggestionsMsg),
\* while it is true no key starts a fetch, and only handling the
\* suggestionsMsg ends it.
C25_OneFetchInFlight ==
    /\ [](Running => (m.loading <=> fetch.c # "idle"))
    /\ [](Running /\ m.loading => \A key \in SessionKeys : UpdateKey(m, key).cmd.op # "fetch")
    /\ [][(m.loading /\ proc' = "running" /\ ~m'.loading) => SuggestionsMsgEvent]_vars

\* a fetch is in flight, the session is back in query mode (an execution
\* finished meanwhile) with a query typed: only loading holds Enter back
C25_Witness ==
    /\ Running
    /\ m.loading /\ fetch.c = "select"
    /\ m.queryMode /\ InputValue(m) # <<>>
    /\ UpdateKey(m, Key("enter")).cmd = NoCmd

\* ---------------------------------------------------------------- C26
\* C26: at most one of loading, an execution in progress and showResult
\* holds; in particular loading and showResult never hold together.
C26_ExclusiveModeFlags ==
    Running =>
        /\ ~(m.loading /\ m.showResult)
        /\ ~(m.loading /\ Len(execs) > 0)
        /\ ~(m.showResult /\ Len(execs) > 0)

\* ---------------------------------------------------------------- C27
\* C27: queryMode and directCommandMode are never both true.
C27_OneInputMode == Running => ~(m.queryMode /\ m.directCommandMode)

\* ---------------------------------------------------------------- C28
\* the keys other than the quit keys
NonQuitKeys == {key \in SessionKeys : key.type \notin QuitKeys}

\* C28: a state with no fetch and no execution pending is QueryInput, or
\* some key other than a quit key changes the model or starts a command
\* (if none does, no sequence of such keys leads anywhere).
C28_NoTerminalState ==
    (Running /\ fetch.c = "idle" /\ Len(execs) = 0)
        => \/ QueryInputState(m)
           \/ \E key \in NonQuitKeys : UpdateKey(m, key) # Ret(m, NoCmd)


\* ---------------------------------------------------------------- C29
\* the keys that edit: a rune, backspace, delete, left, right
EditingKeys ==
    {Key(t) : t \in {"backspace", "delete", "left", "right"}}
    \cup {[type |-> "runes", runes |-> r] : r \in SessionRunes}
\* suggestion browse/edit: a batch on screen, neither input flag set, nothing
\* loading, no result shown
InBrowseEdit(mm) ==
    /\ Len(mm.suggestions) > 0
    /\ InSuggestionMode(mm)
    /\ ~mm.loading
    /\ ~mm.showResult
\* QueryInput or DirectCommandInput: one input flag set, nothing loading, no
\* result shown
InInputMode(mm) ==
    /\ mm.queryMode # mm.directCommandMode
    /\ ~mm.loading
    /\ ~mm.showResult

\* C29: outside suggestion browse/edit an editing key leaves every suggestion
\* (editedCommand and cursorPosition) unchanged, and in QueryInput and
\* DirectCommandInput the key is applied to the input buffer.
C29_EditKeysOnlyInBrowseEdit ==
    [][\A key \in EditingKeys :
          (KeyEvent(key) /\ ~InBrowseEdit(m))
             => /\ m'.suggestions = m.suggestions
                /\ InInputMode(m) => m'.input = TextInputUpdate(m.input, key)]_vars

\* ---------------------------------------------------------------- C30
\* C30: whenever the list of suggestions is non-empty, selected is one of its
\* indices (0-based).
C30_SelectedIsValidIndex ==
    Running =>
        (Len(m.suggestions) > 0 => m.selected \in 0..(Len(m.suggestions) - 1))

\* the last of a batch is selected and the message of the next fetch, with a
\* shorter batch, is about to be handled: the old index is outside the new
\* list, which Update installs with selected = 0
C30_Witness ==
    /\ Running
    /\ fetch.c = "returned"
    /\ m.selected = Len(m.suggestions) - 1
    /\ fetch.msg.err = NoErr
    /\ Len(fetch.msg.suggestions) \in 1..m.selected
    /\ UpdateSuggestions(m, fetch.msg).selected = 0


\* ---------------------------------------------------------------- C31
\* C31: the cursor of every suggestion is within 0..len(editedCommand),
\* whatever was inserted (one rune, a two-byte rune, several runes at once),
\* removed, moved over, navigated to or cancelled since the batch arrived.
C31_CursorWithinCommand ==
    \A i \in 1..Len(m.suggestions) :
        m.suggestions[i].CursorPosition \in 0..Len(m.suggestions[i].EditedCommand)

\* a suggestion that had a pasted text of two runes, one of two bytes,
\* inserted and a byte removed: the cursor is inside the edited command
C31_Witness ==
    /\ CanEdit(m)
    /\ Len(Sel(m).EditedCommand) = Len(Sel(m).Command) + 2
    /\ Sel(m).CursorPosition = Len(Sel(m).Command) + 1
    /\ edits >= 2

\* ---------------------------------------------------------------- C32
\* the keys that edit, with every rune payload
EditOps ==
    {Key(t) : t \in {"backspace", "delete", "left", "right"}}
    \cup {[type |-> "runes", runes |-> r] : r \in RuneInputs}

\* C32: an edit key changes editedCommand and cursorPosition of the selected
\* suggestion only: the other suggestions, every command and description,
\* selected, the length of the list and the rest of the model stay.
C32_EditTouchesSelectedOnly ==
    [][\A key \in EditOps :
          (CanEdit(m) /\ EditKey(key))
             => /\ SameBatch(m'.suggestions, m.suggestions)
                /\ m'.selected = m.selected
                /\ \A i \in 1..Len(m.suggestions) :
                      i # m.selected + 1 => m'.suggestions[i] = m.suggestions[i]
                /\ m' = [m EXCEPT !.suggestions = m'.suggestions]]_vars

\* the second of three suggestions is edited, the first and third are as
\* they arrived
C32_Witness ==
    /\ CanEdit(m)
    /\ Len(m.suggestions) = 3
    /\ m.selected = 1
    /\ m.suggestions[2].EditedCommand # m.suggestions[2].Command
    /\ AllReset(<<m.suggestions[1], m.suggestions[3]>>)


\* ---------------------------------------------------------------- C39
\* the reference buffer of a suggestion: the text before and after the cursor
Before(sugg) == Slice(sugg.EditedCommand, 0, sugg.CursorPosition)
After(sugg) == Slice(sugg.EditedCommand, sugg.CursorPosition, Len(sugg.EditedCommand))
DropLast(s) == IF s = <<>> THEN s ELSE SubSeq(s, 1, Len(s) - 1)
DropFirst(s) == IF s = <<>> THEN s ELSE Tail(s)

\* C39: on the selected suggestion an insert appends the typed text to the
\* part before the cursor and leaves the part after it; backspace drops the
\* last element of the part before, delete the first of the part after; left
\* and right move one element across the cursor.
C39_EditsRefineTextBuffer ==
    [][\A key \in EditOps :
          (CanEdit(m) /\ EditKey(key))
             => LET b == Before(Sel(m))
                    a == After(Sel(m))
                    bb == Before(Sel(m'))
                    aa == After(Sel(m'))
                IN  CASE key.type = "runes" -> bb = b \o Concat(key.runes) /\ aa = a
                      [] key.type = "backspace" -> bb = DropLast(b) /\ aa = a
                      [] key.type = "delete" -> bb = b /\ aa = DropFirst(a)
                      [] key.type = "left" ->
                            IF b = <<>> THEN bb = b /\ aa = a
                            ELSE bb = DropLast(b) /\ aa = <<b[Len(b)]>> \o a
                      [] key.type = "right" ->
                            IF a = <<>> THEN bb = b /\ aa = a
                            ELSE bb = b \o <<a[1]>> /\ aa = DropFirst(a)]_vars


\* ---------------------------------------------------------------- C36
\* C36: Tab takes QueryInput to DirectCommandInput, DirectCommandInput to
\* suggestion browse when the list is non-empty and to QueryInput otherwise,
\* and suggestion browse to QueryInput; it changes only the two mode flags
\* and the placeholder, returns no command, and changes nothing while
\* loading.
C36_TabCyclesModes ==
    Running =>
        LET r == UpdateKey(m, Key("tab"))
        IN  /\ r.cmd = NoCmd
            /\ r.m = [m EXCEPT !.queryMode = r.m.queryMode,
                               !.directCommandMode = r.m.directCommandMode,
                               !.placeholder = r.m.placeholder]
            /\ m.loading => r.m = m
            /\ (~m.loading /\ m.queryMode /\ ~m.directCommandMode)
                  => /\ ~r.m.queryMode /\ r.m.directCommandMode
                     /\ r.m.placeholder = PlaceholderDirect
            /\ (~m.loading /\ ~m.queryMode /\ m.directCommandMode)
                  => /\ ~r.m.directCommandMode
                     /\ r.m.queryMode = (Len(m.suggestions) = 0)
                     /\ r.m.placeholder = PlaceholderQuery
            /\ (~m.loading /\ InSuggestionMode(m) /\ Len(m.suggestions) > 0)
                  => /\ r.m.queryMode /\ ~r.m.directCommandMode
                     /\ r.m.placeholder = PlaceholderQuery

\* suggestion browse entered by Tab from DirectCommandInput: the text typed
\* in QueryInput two Tabs earlier is still in the input buffer
C36_Witness ==
    /\ Running
    /\ Browsing(m)
    /\ m.input # <<>>
    /\ m.placeholder = PlaceholderQuery


\* ---------------------------------------------------------------- C38
\* C38: while loading, Update on any key other than a quit key returns the
\* model it was given (mode flags, suggestions, selected, query, input
\* buffer and stored result included).
C38_KeysIgnoredWhileLoading ==
    (Running /\ m.loading) => \A key \in NonQuitKeys : UpdateKey(m, key).m = m


\* ---------------------------------------------------------------- C33
\* C33: the suggestionsMsg Update applies was returned by the fetch of the
\* query submitted last (m.query), and no fetch is started while the closure
\* of another has still to return or to have its message applied, so none is
\* ever superseded.
C33_NoStaleFetchApplied ==
    /\ [][SuggestionsMsgEvent => fetch.query = m.query /\ fetch.query # <<>>]_vars
    /\ [](Running /\ fetch.c # "idle" => UpdateKey(m, Key("enter")).cmd.op # "fetch")

\* a batch was applied for the current query while the goroutine of an
\* earlier fetch, which timed out, is still running
C33_Witness ==
    /\ Running
    /\ abandoned
    /\ ~m.loading
    /\ Len(m.suggestions) > 0
    /\ origin = m.query

\* ---------------------------------------------------------------- C37
\* C37: with a non-empty list and nothing loading, m.query is the query
\* whose fetch produced the list.
C37_BatchUnderItsQuery ==
    (Running /\ Len(m.suggestions) > 0 /\ ~m.loading) => m.query = origin


\* ---------------------------------------------------------------- C35
\* C35: the step that applies the result message of an execution shows the
\* result view with the output of that execution: its output message was
\* applied before and no message of another execution since.
C35_ResultShowsItsOutput ==
    [][\A i \in 1..Len(execs) :
          ExecuteResultMsg(i) => m'.showResult /\ m'.commandResult = execs[i].out]_vars


\* ---------------------------------------------------------------- C40
\* every line of a body before the sentinel line, or every line when there
\* is no sentinel; the last may end with the body instead of a newline
LinesOfBody(id) ==
    LET lines == BodyLines(id)
        d == SentinelAt(lines)
    IN  IF d = 0 THEN lines ELSE SubSeq(lines, 1, d - 1)

\* C40: once the consumer saw the channel closed, with no cancellation and
\* no read error, it has received the chunk of every well-formed data line
\* before the sentinel or the end of the body, a last line without a newline
\* included; and a reader that reached the end of a body without sentinel
\* has closed the channel.
C40_EveryChunkLineDelivered ==
    /\ (st.cpc = "done" /\ ~st.cancelled /\ ~st.readErr)
          => st.got = ChunksOf(LinesOfBody(st.body))
    /\ (st.rpc = "exited" /\ st.exit = "eof") => st.closes = 1


\* ---------------------------------------------------------------- C34
\* C34: once the caller's context is cancelled the reader goroutine
\* eventually returns and the channel is closed, whether the caller goes on
\* receiving or not.
C34_ReaderReturnsAfterCancel ==
    st.cancelled ~> (st.rpc = "exited" /\ st.closes = 1)

====
